---------------------------- MODULE Spec2Model ----------------------------
(***************************************************************************)
(* The recording and reverse-evaluation core of CoDiPack's two chunked     *)
(* tapes: ChunkTape (linear indices, include/tapes/chunkTape.hpp) and      *)
(* ChunkIndexReuseTape (indices recycled through an index handler,         *)
(* include/tapes/chunkIndexReuse.hpp).                                     *)
(*                                                                         *)
(* Real values (adjoints, jacobians, primal values) are small integers.    *)
(* Chunk indices and offsets are 0-based as in the C++ code; a TLA+        *)
(* sequence that stores them is indexed with "+ 1".                        *)
(***************************************************************************)
EXTENDS Integers, Sequences, FiniteSets, TLC

(***************************************************************************)
(* Bounds of the model.                                                    *)
(***************************************************************************)
\* statements that may be on the linear tape at one time (registerInput
\* appends one there) and on the reuse tape
MaxStmts == 3
MaxStmtsReuse == 2
\* statements on a tape that is rewound
MaxStmtsReset == 2
\* external functions pushed over one run (each gets a fresh identity)
MaxExt == 2
\* calls of evaluate over one run (bounds the growth of adjoint values)
MaxEvals == 1
\* largest maxActiveVariables of a right-hand side
MaxArgs == 2
\* largest chunk size of the jacobian log (the smallest is MaxArgs)
MaxDataChunk == 3
\* largest chunk size of the statement log and of the external function log
MaxChunk == 2
\* largest index and size the program passes to the adjoint vector
MaxAdjIndex == 3

\* the ActiveReal objects of the recorded program
Reals == {"x", "y"}
\* primal values, seeds and jacobians
Values == {1, 2}
Jacobies == {1, 2}

(***************************************************************************)
(* Compile-time options (configure.h is not part of the sources; the       *)
(* values are the ones section 4 and 9 of the specification describe).     *)
(***************************************************************************)
OptTapeActivity == TRUE
OptZeroAdjoint == TRUE
OptJacobiIsZero == TRUE
\* the filter for non-finite jacobians is opt-in (section 7)
OptIgnoreInvalidJacobies == FALSE

(***************************************************************************)
(* The Real type.  Finite values are the non-negative integers; Inf and    *)
(* NaN stand for the non-finite doubles a jacobian can be (the derivative  *)
(* of sqrt at 0).  RealMul and RealAdd are IEEE 754 multiplication and     *)
(* addition on these values: 0 * Inf is NaN, NaN is absorbing.             *)
(***************************************************************************)
Inf == -1
NaN == -2

IsFinite(a) == a >= 0

RealMul(a, b) ==
  IF a = NaN \/ b = NaN THEN NaN
  ELSE IF a = Inf \/ b = Inf THEN (IF a = 0 \/ b = 0 THEN NaN ELSE Inf)
  ELSE a * b

RealAdd(a, b) ==
  IF a = NaN \/ b = NaN THEN NaN
  ELSE IF a = Inf \/ b = Inf THEN Inf
  ELSE a + b

VARIABLES
  kind,               \* "linear" (ChunkTape) or "reuse" (ChunkIndexReuseTape)
  active,             \* bool active
  count,              \* expressionCount.count (linear tape; 0 on the reuse tape)
  indexHandler,       \* IndexHandler (reuse tape): [maxIssued, freeList]
  data,               \* DataChunkVector: chunks of <<jacobi, index>>
  statements,         \* StatementChunkVector: chunks of <<n>> / <<n, lhsIndex>>
  externalFunctions,  \* ExternalFunctionChunkVector: chunks of <<func, position>>
  adjoints,           \* Real* adjoints; Len(adjoints) = adjointsSize
  reals,              \* the program's ActiveReals: [value, gradientData]
  saved,              \* a Position the program obtained from getPosition()
  fault,              \* "none", or how the run ended in undefined behaviour
  hist,               \* history: the statements on the tape, in recording order
  extHist,            \* history: the external functions on the tape, in order
  deleted,            \* history: how often deleteData ran, per external function
  extCount,           \* history: external functions pushed so far
  evals,              \* history: evaluate calls so far
  last                \* history: the last operation and what it observed

vars == <<kind, active, count, indexHandler, data, statements, externalFunctions,
          adjoints, reals, saved, fault, hist, extHist, deleted, extCount, evals, last>>

tapeVars == <<count, indexHandler, data, statements, externalFunctions>>

(***************************************************************************)
(* ChunkVector (chunkVector.hpp is not part of the sources).  A vector is  *)
(* [chunks, positions, chunkSize]: chunks[c + 1] holds the records written *)
(* to chunk c, positions[c + 1] is the position of the nested vector taken *)
(* when chunk c was started.  The current chunk is the last one; chunks    *)
(* beyond a reset position are dropped (whether they are freed or kept for *)
(* reuse is not observable).  The used size of a chunk is the number of    *)
(* records written to it: evaluateStmt and evaluateData start the reverse  *)
(* walk of a closed chunk at getChunkUsedData (chunkTape.hpp 559, 592).    *)
(***************************************************************************)
CVNew(chunkSize, innerPos) ==
  [chunks |-> << <<>> >>, positions |-> <<innerPos>>, chunkSize |-> chunkSize]

CVCurChunkIndex(cv) == Len(cv.chunks) - 1

\* getChunkPosition(): the used size of the current chunk
CVGetChunkPosition(cv) == Len(cv.chunks[Len(cv.chunks)])

\* getPosition(): (chunk, data, inner)
CVGetPosition(cv, innerPos) ==
  [chunk |-> CVCurChunkIndex(cv), data |-> CVGetChunkPosition(cv), inner |-> innerPos]

\* a nextChunk that starts over in the current chunk
CVNextChunkInPlace(cv, innerPos) ==
  [cv EXCEPT !.chunks[Len(cv.chunks)] = <<>>, !.positions[Len(cv.positions)] = innerPos]

\* nextChunk(): the current chunk is closed, a new one holds what follows
CVNextChunk(cv, innerPos) ==
  [cv EXCEPT !.chunks = Append(@, <<>>), !.positions = Append(@, innerPos)]

\* reserveItems(items): a new chunk is started only if the items do not fit
CVReserveItems(cv, items, innerPos) ==
  IF cv.chunkSize < CVGetChunkPosition(cv) + items
  THEN CVNextChunk(cv, innerPos)
  ELSE cv

\* setDataAndMove(record)
CVSetDataAndMove(cv, rec) ==
  [cv EXCEPT !.chunks[Len(cv.chunks)] = Append(@, rec)]

\* getInnerPosition(chunk), getChunkUsedData(chunk)
CVGetInnerPosition(cv, c) == cv.positions[c + 1]
CVGetChunkUsedData(cv, c) == Len(cv.chunks[c + 1])

\* reset(pos) of this level (the caller resets the nested vector to pos.inner)
CVReset(cv, pos) ==
  [cv EXCEPT
     !.chunks = [c \in 1..(pos.chunk + 1) |->
                   IF c = pos.chunk + 1 THEN SubSeq(cv.chunks[c], 1, pos.data)
                                        ELSE cv.chunks[c]],
     !.positions = SubSeq(cv.positions, 1, pos.chunk + 1)]

\* the records of chunk c from offset start - 1 down to offset end
RECURSIVE CVForEachData(_, _, _, _)
CVForEachData(cv, c, start, end) ==
  IF start <= end THEN <<>>
  ELSE <<cv.chunks[c + 1][start]>> \o CVForEachData(cv, c, start - 1, end)

\* forEach(start, end, f): the records f is called with, in call order
RECURSIVE CVForEach(_, _, _, _, _)
CVForEach(cv, c, dataStart, endChunk, endData) ==
  IF c > endChunk
  THEN CVForEachData(cv, c, dataStart, 0)
         \o CVForEach(cv, c - 1, CVGetChunkUsedData(cv, c - 1), endChunk, endData)
  ELSE CVForEachData(cv, endChunk, dataStart, endData)

\* all records of a vector, oldest first
RECURSIVE Flatten(_)
Flatten(chunks) ==
  IF chunks = <<>> THEN <<>>
  ELSE Flatten(SubSeq(chunks, 1, Len(chunks) - 1)) \o chunks[Len(chunks)]

\* lexicographic order of two (chunk, data) pairs: a >= b
PosGE(a, b) == a.chunk > b.chunk \/ (a.chunk = b.chunk /\ a.data >= b.data)

(***************************************************************************)
(* IndexHandler (indexHandler.hpp is not part of the sources): the pair    *)
(* (maxIssued, freeList) of section 3 of the specification.                *)
(***************************************************************************)
IHNew == [maxIssued |-> 0, freeList |-> <<>>]

\* checkIndex(index): [ih, index] after the call
IHCheckIndex(ih, index) ==
  IF index # 0 THEN [ih |-> ih, index |-> index]
  ELSE IF ih.freeList # <<>>
       THEN [ih |-> [ih EXCEPT !.freeList = SubSeq(@, 1, Len(@) - 1)],
             index |-> ih.freeList[Len(ih.freeList)]]
       ELSE [ih |-> [ih EXCEPT !.maxIssued = @ + 1], index |-> ih.maxIssued + 1]

\* freeIndex(index): [ih, index] after the call
IHFreeIndex(ih, index) ==
  IF index # 0 THEN [ih |-> [ih EXCEPT !.freeList = Append(@, index)], index |-> 0]
  ELSE [ih |-> ih, index |-> 0]

IHGetMaximumGlobalIndex(ih) == ih.maxIssued

\* reset()
IHReset(ih) == IHNew

(***************************************************************************)
(* Positions of the three nested vectors.                                  *)
(***************************************************************************)
\* the terminator's position: ExpressionCounter::getPosition / EmptyChunkVector
CounterPosition(k, cnt) == IF k = "linear" THEN cnt ELSE 0

DataPosition(k, cnt, d) == CVGetPosition(d, CounterPosition(k, cnt))
StmtPosition(k, cnt, d, s) == CVGetPosition(s, DataPosition(k, cnt, d))
\* ChunkTape::getPosition
GetPosition(k, cnt, d, s, e) == CVGetPosition(e, StmtPosition(k, cnt, d, s))

\* Position(): the default constructed position
ZeroPosition ==
  [chunk |-> 0, data |-> 0, inner |->
    [chunk |-> 0, data |-> 0, inner |-> [chunk |-> 0, data |-> 0, inner |-> 0]]]


(***************************************************************************)
(* The tape as one value, for the operators that model member functions.   *)
(***************************************************************************)
Tape ==
  [kind |-> kind, active |-> active, count |-> count, indexHandler |-> indexHandler,
   data |-> data, statements |-> statements, externalFunctions |-> externalFunctions]

TapeDataPosition(t) == DataPosition(t.kind, t.count, t.data)
TapeStmtPosition(t) == StmtPosition(t.kind, t.count, t.data, t.statements)
TapePosition(t) ==
  GetPosition(t.kind, t.count, t.data, t.statements, t.externalFunctions)

\* the largest index an adjoint may be asked for: expressionCount.count on the
\* linear tape, indexHandler.getMaximumGlobalIndex() on the reuse tape
MaxIndex(t) ==
  IF t.kind = "linear" THEN t.count ELSE IHGetMaximumGlobalIndex(t.indexHandler)

\* a resize that allocates a fresh zeroed vector instead of reallocating
ResizeAdjointsFresh(adj, size) == [i \in 1..size |-> 0]

\* resizeAdjoints(size): realloc keeps the old values, the new tail is zeroed
ResizeAdjoints(adj, size) ==
  [i \in 1..size |-> IF i <= Len(adj) THEN adj[i] ELSE 0]

(***************************************************************************)
(* Recording.  A right-hand side is [value, leaves]: its primal value and, *)
(* per active-type leaf, the jacobian calcGradient passes to pushJacobi    *)
(* and the ActiveReal the leaf refers to; maxActiveVariables is the number *)
(* of leaves.                                                              *)
(***************************************************************************)
Leaves == [jacobi : Jacobies, real : Reals]
\* the right-hand sides of the recorded program: their i-th leaf has jacobian i
Exprs ==
  {e \in UNION {[1..n -> Leaves] : n \in 1..MaxArgs} : \A i \in 1..Len(e) : e[i].jacobi = i}

\* pushJacobi(gradient, jacobi, value, index)
PushJacobi(d, jacobi, index) ==
  IF 0 # index
  THEN IF (~OptIgnoreInvalidJacobies) \/ IsFinite(jacobi)
       THEN IF (~OptJacobiIsZero) \/ 0 # jacobi
            THEN CVSetDataAndMove(d, <<jacobi, index>>)
            ELSE d
       ELSE d
  ELSE d

\* StatementInt is an unsigned 8 bit integer (configure.h is not part of the
\* sources; section 3 of the specification gives argCount as u8)
StatementIntRange == 256

\* (StatementInt)activeVariables
StatementIntCast(n) == n % StatementIntRange

\* the records one pushJacobi call of calcGradient appends to the jacobian log
\* d, for the leaf it is called for
JacobiPushed(d, leaf, rs) ==
  LET d2 == PushJacobi(d, leaf.jacobi, rs[leaf.real].gradientData)
  IN SubSeq(d2.chunks[Len(d2.chunks)], CVGetChunkPosition(d) + 1, CVGetChunkPosition(d2))

\* whether a pushJacobi call appended a record
HasPushed(recs) == recs # <<>>

\* rhs.calcGradient(...): pushJacobi once per leaf, in leaf order (what a
\* call appends does not depend on the records appended before it)
CalcGradient(d, leaves, rs, i) ==
  LET calls == [k \in 1..(Len(leaves) - i + 1) |-> JacobiPushed(d, leaves[k + i - 1], rs)]
      pushed == SelectSeq(calls, HasPushed)
  IN [d EXCEPT !.chunks[Len(d.chunks)] = @ \o [k \in 1..Len(pushed) |-> pushed[k][1]]]

\* a store that sets lhsValue only when it records
StoreLinearValueWhenActive(t, lhsValue, lhsIndex, rhs, rhsValue, rs) ==
  IF (~OptTapeActivity) \/ t.active
  THEN LET d1 == CVReserveItems(t.data, Len(rhs), CounterPosition(t.kind, t.count))
           s1 == CVReserveItems(t.statements, 1, CVGetPosition(d1, CounterPosition(t.kind, t.count)))
           startSize == CVGetChunkPosition(d1)
           d2 == CalcGradient(d1, rhs, rs, 1)
           activeVariables == CVGetChunkPosition(d2) - startSize
       IN IF 0 = activeVariables
          THEN [tape |-> [t EXCEPT !.data = d2, !.statements = s1],
                lhsValue |-> rhsValue, lhsIndex |-> 0]
          ELSE [tape |-> [t EXCEPT !.data = d2,
                                   !.statements = CVSetDataAndMove(s1, <<StatementIntCast(activeVariables)>>),
                                   !.count = @ + 1],
                lhsValue |-> rhsValue, lhsIndex |-> t.count + 1]
  ELSE [tape |-> t, lhsValue |-> lhsValue, lhsIndex |-> lhsIndex]

\* a store that leaves lhsIndex alone when the right-hand side pushed nothing
StoreLinearKeepIndex(t, lhsValue, lhsIndex, rhs, rhsValue, rs) ==
  IF (~OptTapeActivity) \/ t.active
  THEN LET d1 == CVReserveItems(t.data, Len(rhs), CounterPosition(t.kind, t.count))
           s1 == CVReserveItems(t.statements, 1, CVGetPosition(d1, CounterPosition(t.kind, t.count)))
           startSize == CVGetChunkPosition(d1)
           d2 == CalcGradient(d1, rhs, rs, 1)
           activeVariables == CVGetChunkPosition(d2) - startSize
       IN IF 0 = activeVariables
          THEN [tape |-> [t EXCEPT !.data = d2, !.statements = s1],
                lhsValue |-> rhsValue, lhsIndex |-> lhsIndex]
          ELSE [tape |-> [t EXCEPT !.data = d2,
                                   !.statements = CVSetDataAndMove(s1, <<StatementIntCast(activeVariables)>>),
                                   !.count = @ + 1],
                lhsValue |-> rhsValue, lhsIndex |-> t.count + 1]
  ELSE [tape |-> t, lhsValue |-> rhsValue, lhsIndex |-> lhsIndex]

\* a store that reserves the statement slot after the jacobians are pushed
StoreLinearReserveStmtLate(t, lhsValue, lhsIndex, rhs, rhsValue, rs) ==
  IF (~OptTapeActivity) \/ t.active
  THEN LET d1 == CVReserveItems(t.data, Len(rhs), CounterPosition(t.kind, t.count))
           startSize == CVGetChunkPosition(d1)
           d2 == CalcGradient(d1, rhs, rs, 1)
           s1 == CVReserveItems(t.statements, 1, CVGetPosition(d2, CounterPosition(t.kind, t.count)))
           activeVariables == CVGetChunkPosition(d2) - startSize
       IN IF 0 = activeVariables
          THEN [tape |-> [t EXCEPT !.data = d2, !.statements = s1],
                lhsValue |-> rhsValue, lhsIndex |-> 0]
          ELSE [tape |-> [t EXCEPT !.data = d2,
                                   !.statements = CVSetDataAndMove(s1, <<StatementIntCast(activeVariables)>>),
                                   !.count = @ + 1],
                lhsValue |-> rhsValue, lhsIndex |-> t.count + 1]
  ELSE [tape |-> t, lhsValue |-> rhsValue, lhsIndex |-> lhsIndex]

\* ChunkTape::store(lhsValue, lhsIndex, rhs) for an expression:
\* [tape, lhsValue, lhsIndex] after the call
StoreLinear(t, lhsValue, lhsIndex, rhs, rhsValue, rs) ==
  IF (~OptTapeActivity) \/ t.active
  THEN LET d1 == CVReserveItems(t.data, Len(rhs), CounterPosition(t.kind, t.count))
           s1 == CVReserveItems(t.statements, 1, CVGetPosition(d1, CounterPosition(t.kind, t.count)))
           startSize == CVGetChunkPosition(d1)
           d2 == CalcGradient(d1, rhs, rs, 1)
           activeVariables == CVGetChunkPosition(d2) - startSize
       IN IF 0 = activeVariables
          THEN [tape |-> [t EXCEPT !.data = d2, !.statements = s1],
                lhsValue |-> rhsValue, lhsIndex |-> 0]
          ELSE [tape |-> [t EXCEPT !.data = d2,
                                   !.statements = CVSetDataAndMove(s1, <<StatementIntCast(activeVariables)>>),
                                   !.count = @ + 1],
                lhsValue |-> rhsValue, lhsIndex |-> t.count + 1]
  ELSE [tape |-> t, lhsValue |-> rhsValue, lhsIndex |-> lhsIndex]

\* a store that takes a new index for every recorded left-hand side
StoreReuseNewIndex(t, lhsValue, lhsIndex, rhs, rhsValue, rs) ==
  IF (~OptTapeActivity) \/ t.active
  THEN LET d1 == CVReserveItems(t.data, Len(rhs), 0)
           s1 == CVReserveItems(t.statements, 1, CVGetPosition(d1, 0))
           startSize == CVGetChunkPosition(d1)
           d2 == CalcGradient(d1, rhs, rs, 1)
           activeVariables == CVGetChunkPosition(d2) - startSize
       IN IF 0 = activeVariables
          THEN LET f == IHFreeIndex(t.indexHandler, lhsIndex)
               IN [tape |-> [t EXCEPT !.data = d2, !.statements = s1, !.indexHandler = f.ih],
                   lhsValue |-> rhsValue, lhsIndex |-> f.index]
          ELSE LET c == IHCheckIndex(t.indexHandler, 0)
               IN [tape |-> [t EXCEPT !.data = d2,
                                      !.statements = CVSetDataAndMove(s1, <<StatementIntCast(activeVariables), c.index>>),
                                      !.indexHandler = c.ih],
                   lhsValue |-> rhsValue, lhsIndex |-> c.index]
  ELSE LET f == IHFreeIndex(t.indexHandler, lhsIndex)
       IN [tape |-> [t EXCEPT !.indexHandler = f.ih],
           lhsValue |-> rhsValue, lhsIndex |-> f.index]

\* a store that records maxActiveVariables as the statement's argument count
StoreReuseMaxArgs(t, lhsValue, lhsIndex, rhs, rhsValue, rs) ==
  IF (~OptTapeActivity) \/ t.active
  THEN LET d1 == CVReserveItems(t.data, Len(rhs), 0)
           s1 == CVReserveItems(t.statements, 1, CVGetPosition(d1, 0))
           startSize == CVGetChunkPosition(d1)
           d2 == CalcGradient(d1, rhs, rs, 1)
           activeVariables == CVGetChunkPosition(d2) - startSize
       IN IF 0 = activeVariables
          THEN LET f == IHFreeIndex(t.indexHandler, lhsIndex)
               IN [tape |-> [t EXCEPT !.data = d2, !.statements = s1, !.indexHandler = f.ih],
                   lhsValue |-> rhsValue, lhsIndex |-> f.index]
          ELSE LET c == IHCheckIndex(t.indexHandler, lhsIndex)
               IN [tape |-> [t EXCEPT !.data = d2,
                                      !.statements = CVSetDataAndMove(s1, <<Len(rhs), c.index>>),
                                      !.indexHandler = c.ih],
                   lhsValue |-> rhsValue, lhsIndex |-> c.index]
  ELSE LET f == IHFreeIndex(t.indexHandler, lhsIndex)
       IN [tape |-> [t EXCEPT !.indexHandler = f.ih],
           lhsValue |-> rhsValue, lhsIndex |-> f.index]

\* a store that reserves the statement before it reserves the jacobians
StoreReuseReserveStmtFirst(t, lhsValue, lhsIndex, rhs, rhsValue, rs) ==
  IF (~OptTapeActivity) \/ t.active
  THEN LET s1 == CVReserveItems(t.statements, 1, CVGetPosition(t.data, 0))
           d1 == CVReserveItems(t.data, Len(rhs), 0)
           startSize == CVGetChunkPosition(d1)
           d2 == CalcGradient(d1, rhs, rs, 1)
           activeVariables == CVGetChunkPosition(d2) - startSize
       IN IF 0 = activeVariables
          THEN LET f == IHFreeIndex(t.indexHandler, lhsIndex)
               IN [tape |-> [t EXCEPT !.data = d2, !.statements = s1, !.indexHandler = f.ih],
                   lhsValue |-> rhsValue, lhsIndex |-> f.index]
          ELSE LET c == IHCheckIndex(t.indexHandler, lhsIndex)
               IN [tape |-> [t EXCEPT !.data = d2,
                                      !.statements = CVSetDataAndMove(s1, <<StatementIntCast(activeVariables), c.index>>),
                                      !.indexHandler = c.ih],
                   lhsValue |-> rhsValue, lhsIndex |-> c.index]
  ELSE LET f == IHFreeIndex(t.indexHandler, lhsIndex)
       IN [tape |-> [t EXCEPT !.indexHandler = f.ih],
           lhsValue |-> rhsValue, lhsIndex |-> f.index]

\* ChunkIndexReuseTape::store(lhsValue, lhsIndex, rhs) for an expression
StoreReuse(t, lhsValue, lhsIndex, rhs, rhsValue, rs) ==
  IF (~OptTapeActivity) \/ t.active
  THEN LET d1 == CVReserveItems(t.data, Len(rhs), 0)
           s1 == CVReserveItems(t.statements, 1, CVGetPosition(d1, 0))
           startSize == CVGetChunkPosition(d1)
           d2 == CalcGradient(d1, rhs, rs, 1)
           activeVariables == CVGetChunkPosition(d2) - startSize
       IN IF 0 = activeVariables
          THEN LET f == IHFreeIndex(t.indexHandler, lhsIndex)
               IN [tape |-> [t EXCEPT !.data = d2, !.statements = s1, !.indexHandler = f.ih],
                   lhsValue |-> rhsValue, lhsIndex |-> f.index]
          ELSE LET c == IHCheckIndex(t.indexHandler, lhsIndex)
               IN [tape |-> [t EXCEPT !.data = d2,
                                      !.statements = CVSetDataAndMove(s1, <<StatementIntCast(activeVariables), c.index>>),
                                      !.indexHandler = c.ih],
                   lhsValue |-> rhsValue, lhsIndex |-> c.index]
  ELSE LET f == IHFreeIndex(t.indexHandler, lhsIndex)
       IN [tape |-> [t EXCEPT !.indexHandler = f.ih],
           lhsValue |-> rhsValue, lhsIndex |-> f.index]

\* a copy that zeroes lhsIndex when the tape is passive
StoreCopyLinearZeroWhenPassive(t, lhsValue, lhsIndex, rhsValue, rhsIndex) ==
  IF (~OptTapeActivity) \/ t.active
  THEN [tape |-> t, lhsValue |-> rhsValue, lhsIndex |-> rhsIndex]
  ELSE [tape |-> t, lhsValue |-> rhsValue, lhsIndex |-> 0]

\* ChunkTape::store(lhsValue, lhsIndex, const ActiveReal& rhs): the copy
StoreCopyLinear(t, lhsValue, lhsIndex, rhsValue, rhsIndex) ==
  IF (~OptTapeActivity) \/ t.active
  THEN [tape |-> t, lhsValue |-> rhsValue, lhsIndex |-> rhsIndex]
  ELSE [tape |-> t, lhsValue |-> rhsValue, lhsIndex |-> lhsIndex]

\* a copy that hands the lhs the index of the rhs, as the linear tape does
StoreCopyReuseShareIndex(t, lhsValue, lhsIndex, rhsValue, rhsIndex) ==
  IF (~OptTapeActivity) \/ t.active
  THEN [tape |-> t, lhsValue |-> rhsValue, lhsIndex |-> rhsIndex]
  ELSE LET f == IHFreeIndex(t.indexHandler, lhsIndex)
       IN [tape |-> [t EXCEPT !.indexHandler = f.ih],
           lhsValue |-> rhsValue, lhsIndex |-> f.index]

\* ChunkIndexReuseTape::store(lhsValue, lhsIndex, const ActiveReal& rhs)
StoreCopyReuse(t, lhsValue, lhsIndex, rhsValue, rhsIndex) ==
  IF (~OptTapeActivity) \/ t.active
  THEN IF 0 # rhsIndex
       THEN LET c == IHCheckIndex(t.indexHandler, lhsIndex)
                d1 == CVReserveItems(t.data, 1, 0)
                s1 == CVReserveItems(t.statements, 1, CVGetPosition(d1, 0))
                d2 == CVSetDataAndMove(d1, <<1, rhsIndex>>)
                s2 == CVSetDataAndMove(s1, <<1, c.index>>)
            IN [tape |-> [t EXCEPT !.data = d2, !.statements = s2, !.indexHandler = c.ih],
                lhsValue |-> rhsValue, lhsIndex |-> c.index]
       ELSE LET f == IHFreeIndex(t.indexHandler, lhsIndex)
            IN [tape |-> [t EXCEPT !.indexHandler = f.ih],
                lhsValue |-> rhsValue, lhsIndex |-> f.index]
  ELSE LET f == IHFreeIndex(t.indexHandler, lhsIndex)
       IN [tape |-> [t EXCEPT !.indexHandler = f.ih],
           lhsValue |-> rhsValue, lhsIndex |-> f.index]

\* ChunkTape::store(lhsValue, lhsIndex, const PassiveReal& rhs)
StorePassiveLinear(t, lhsValue, lhsIndex, rhs) ==
  IF (~OptTapeActivity) \/ t.active
  THEN [tape |-> t, lhsValue |-> rhs, lhsIndex |-> 0]
  ELSE [tape |-> t, lhsValue |-> rhs, lhsIndex |-> lhsIndex]

\* ChunkIndexReuseTape::store(lhsValue, lhsIndex, const PassiveReal& rhs)
StorePassiveReuse(t, lhsValue, lhsIndex, rhs) ==
  LET f == IHFreeIndex(t.indexHandler, lhsIndex)
  IN [tape |-> [t EXCEPT !.indexHandler = f.ih], lhsValue |-> rhs, lhsIndex |-> f.index]

\* a registerInput that takes the next index without pushing a statement
RegisterInputLinearNoStatement(t, index) ==
  [tape |-> [t EXCEPT !.count = @ + 1], index |-> t.count + 1]

\* ChunkTape::registerInput(value): [tape, index]
RegisterInputLinear(t, index) ==
  LET s1 == CVReserveItems(t.statements, 1, TapeDataPosition(t))
  IN [tape |-> [t EXCEPT !.statements = CVSetDataAndMove(s1, <<0>>), !.count = @ + 1],
      index |-> t.count + 1]

\* ChunkIndexReuseTape::registerInput(value)
RegisterInputReuse(t, index) ==
  LET c == IHCheckIndex(t.indexHandler, index)
  IN [tape |-> [t EXCEPT !.indexHandler = c.ih], index |-> c.index]

\* destroyGradientData(value, index): [tape, index]
DestroyGradientDataOp(t, index) ==
  IF t.kind = "linear" THEN [tape |-> t, index |-> index]
  ELSE LET f == IHFreeIndex(t.indexHandler, index)
       IN [tape |-> [t EXCEPT !.indexHandler = f.ih], index |-> f.index]

\* a pushExternalFunctionHandle that stores the start of the current statement
\* chunk as the boundary
PushExternalFunctionHandleOpChunkStart(t, func) ==
  LET e1 == CVReserveItems(t.externalFunctions, 1, TapeStmtPosition(t))
      boundary == [TapeStmtPosition(t) EXCEPT
                     !.data = 0,
                     !.inner = CVGetInnerPosition(t.statements, CVCurChunkIndex(t.statements))]
  IN [t EXCEPT !.externalFunctions = CVSetDataAndMove(e1, <<func, boundary>>)]

\* pushExternalFunctionHandle(function)
PushExternalFunctionHandleOp(t, func) ==
  LET e1 == CVReserveItems(t.externalFunctions, 1, TapeStmtPosition(t))
  IN [t EXCEPT !.externalFunctions = CVSetDataAndMove(e1, <<func, TapeStmtPosition(t)>>)]

(***************************************************************************)
(* The reverse pass.  The walk carries w = [adj, trace, oob, stmtPos,      *)
(* dataPos, writes]: the adjoint vector, the statements and external       *)
(* functions visited so far, whether a read or write left its array, the   *)
(* two cursors the C++ code passes by reference, and the number of         *)
(* assignments to adjoint slots executed so far.  The trace holds          *)
(* <<"ext", func>> per callback and, per statement, <<"stmt", chunk,       *)
(* offset, a, n, same>>: the lhs adjoint a that was read, the number n of  *)
(* assignments to adjoint slots executed for the statement and whether the *)
(* adjoint vector holds the same values after it as before.  A read        *)
(* outside a jacobian chunk yields g, an arbitrary record; a write outside *)
(* the adjoint vector is dropped.                                          *)
(***************************************************************************)
WalkStart(adj) ==
  [adj |-> adj, trace |-> <<>>, oob |-> FALSE, stmtPos |-> 0, dataPos |-> 0,
   writes |-> 0]

\* the walk after a statement: w before it, w2 after it, a the adjoint read
StmtDone(w, w2, sc, stmtPos, a) ==
  [w2 EXCEPT !.trace = Append(@, <<"stmt", sc, stmtPos, a, w2.writes - w.writes,
                                   w2.adj = w.adj>>)]

\* jacobies[dataPos], indices[dataPos] of jacobian chunk jc
JacobiAt(t, jc, dataPos, g) ==
  IF dataPos >= 0 /\ dataPos < Len(t.data.chunks[jc + 1])
  THEN t.data.chunks[jc + 1][dataPos + 1]
  ELSE g

JacobiInside(t, jc, dataPos) ==
  dataPos >= 0 /\ dataPos < Len(t.data.chunks[jc + 1])

\* statements[stmtPos] of statement chunk sc
StmtAt(t, sc, stmtPos) ==
  IF stmtPos >= 0 /\ stmtPos < Len(t.statements.chunks[sc + 1])
  THEN t.statements.chunks[sc + 1][stmtPos + 1]
  ELSE <<0, 0>>

StmtInside(t, sc, stmtPos) ==
  stmtPos >= 0 /\ stmtPos < Len(t.statements.chunks[sc + 1])

\* adjoints[i]
AdjAt(adj, i) == IF i >= 0 /\ i < Len(adj) THEN adj[i + 1] ELSE 0
AdjInside(adj, i) == i >= 0 /\ i < Len(adj)

\* ChunkTape::evaluateExpressions, the loop over the jacobians of one
\* statement; adj is a reference to adjoints[lhs]
RECURSIVE LinearJacobiLoop(_, _, _, _, _, _)
LinearJacobiLoop(t, w, lhs, activeVariables, jc, g) ==
  IF activeVariables = 0 THEN w
  ELSE LET dataPos == w.dataPos - 1
           rec == JacobiAt(t, jc, dataPos, g)
           inside == JacobiInside(t, jc, dataPos) /\ AdjInside(w.adj, rec[2])
                       /\ AdjInside(w.adj, lhs)
           adj == IF AdjInside(w.adj, rec[2])
                  THEN [w.adj EXCEPT ![rec[2] + 1] =
                                        RealAdd(@, RealMul(AdjAt(w.adj, lhs), rec[1]))]
                  ELSE w.adj
       IN LinearJacobiLoop(t, [w EXCEPT !.dataPos = dataPos, !.adj = adj,
                                        !.oob = @ \/ ~inside,
                                        !.writes = @ + 1],
                           lhs, activeVariables - 1, jc, g)

\* evaluateExpressions that runs the jacobian loop whatever the lhs adjoint is
RECURSIVE LinearEvaluateExpressionsNoShortCut(_, _, _, _, _, _, _, _)
LinearEvaluateExpressionsNoShortCut(t, w, adjPos, endAdjPos, sc, jc, zopt, g) ==
  IF adjPos > endAdjPos
  THEN LET stmtPos == w.stmtPos - 1
           activeVariables == StmtAt(t, sc, stmtPos)[1]
           w1 == [w EXCEPT !.stmtPos = stmtPos,
                           !.oob = @ \/ ~StmtInside(t, sc, stmtPos)
                                     \/ ~AdjInside(w.adj, adjPos)]
           w2 == LinearJacobiLoop(t, w1, adjPos, activeVariables, jc, g)
       IN LinearEvaluateExpressionsNoShortCut(t, StmtDone(w, w2, sc, stmtPos, AdjAt(w.adj, adjPos)),
                                              adjPos - 1, endAdjPos, sc, jc, zopt, g)
  ELSE w

\* evaluateExpressions that leaves the jacobian cursor where it is when it
\* skips a statement
RECURSIVE LinearEvaluateExpressionsSkipKeepsCursor(_, _, _, _, _, _, _, _)
LinearEvaluateExpressionsSkipKeepsCursor(t, w, adjPos, endAdjPos, sc, jc, zopt, g) ==
  IF adjPos > endAdjPos
  THEN LET stmtPos == w.stmtPos - 1
           activeVariables == StmtAt(t, sc, stmtPos)[1]
           w1 == [w EXCEPT !.stmtPos = stmtPos,
                           !.oob = @ \/ ~StmtInside(t, sc, stmtPos)
                                     \/ ~AdjInside(w.adj, adjPos)]
           w2 == IF (~zopt) \/ AdjAt(w.adj, adjPos) # 0
                 THEN LinearJacobiLoop(t, w1, adjPos, activeVariables, jc, g)
                 ELSE w1
       IN LinearEvaluateExpressionsSkipKeepsCursor(t, StmtDone(w, w2, sc, stmtPos, AdjAt(w.adj, adjPos)),
                                                   adjPos - 1, endAdjPos, sc, jc, zopt, g)
  ELSE w

\* ChunkTape::evaluateExpressions(startAdjPos, endAdjPos, stmtPos, statements,
\* dataPos, jacobies, indices) on statement chunk sc and jacobian chunk jc
RECURSIVE LinearEvaluateExpressions(_, _, _, _, _, _, _, _)
LinearEvaluateExpressions(t, w, adjPos, endAdjPos, sc, jc, zopt, g) ==
  IF adjPos > endAdjPos
  THEN LET stmtPos == w.stmtPos - 1
           activeVariables == StmtAt(t, sc, stmtPos)[1]
           w1 == [w EXCEPT !.stmtPos = stmtPos,
                           !.oob = @ \/ ~StmtInside(t, sc, stmtPos)
                                     \/ ~AdjInside(w.adj, adjPos)]
           w2 == IF (~zopt) \/ AdjAt(w.adj, adjPos) # 0
                 THEN LinearJacobiLoop(t, w1, adjPos, activeVariables, jc, g)
                 ELSE [w1 EXCEPT !.dataPos = @ - activeVariables]
       IN LinearEvaluateExpressions(t, StmtDone(w, w2, sc, stmtPos, AdjAt(w.adj, adjPos)),
                                    adjPos - 1, endAdjPos, sc, jc, zopt, g)
  ELSE w

\* ChunkTape::evaluateData, the loop over the jacobian chunks above end.chunk
RECURSIVE LinearDataLoop(_, _, _, _, _, _, _, _)
LinearDataLoop(t, w, curChunk, curInnerPos, end, sc, zopt, g) ==
  LET more == curChunk > end.chunk
      endInnerPos == IF more THEN CVGetInnerPosition(t.data, curChunk) ELSE end.inner
      w1 == LinearEvaluateExpressions(t, w, curInnerPos, endInnerPos, sc, curChunk, zopt, g)
  IN IF more
     THEN LinearDataLoop(t, [w1 EXCEPT !.dataPos = CVGetChunkUsedData(t.data, curChunk - 1)],
                         curChunk - 1, endInnerPos, end, sc, zopt, g)
     ELSE w1

\* evaluateData that starts the jacobian cursor at the chunk's capacity
LinearEvaluateDataFromCapacity(t, w, start, end, sc, zopt, g) ==
  LinearDataLoop(t, [w EXCEPT !.dataPos = t.data.chunkSize], start.chunk, start.inner,
                 end, sc, zopt, g)

\* ChunkTape::evaluateData(start, end, stmtPos, statementData)
LinearEvaluateData(t, w, start, end, sc, zopt, g) ==
  LinearDataLoop(t, [w EXCEPT !.dataPos = start.data], start.chunk, start.inner,
                 end, sc, zopt, g)

\* ChunkTape::evaluateStmt, the loop over the statement chunks above end.chunk
RECURSIVE LinearStmtLoop(_, _, _, _, _, _, _)
LinearStmtLoop(t, w, curChunk, curInnerPos, end, zopt, g) ==
  LET more == curChunk > end.chunk
      endInnerPos == IF more THEN CVGetInnerPosition(t.statements, curChunk) ELSE end.inner
      w1 == LinearEvaluateData(t, w, curInnerPos, endInnerPos, curChunk, zopt, g)
  IN IF more
     THEN LinearStmtLoop(t, [w1 EXCEPT !.stmtPos = CVGetChunkUsedData(t.statements, curChunk - 1)],
                         curChunk - 1, endInnerPos, end, zopt, g)
     ELSE w1

\* ChunkTape::evaluateStmt(start, end)
LinearEvaluateStmt(t, w, start, end, zopt, g) ==
  LinearStmtLoop(t, [w EXCEPT !.stmtPos = start.data], start.chunk, start.inner,
                 end, zopt, g)

\* ChunkIndexReuseTape::evaluateExpressions, the loop over the jacobians of
\* one statement; adj is the value read before adjoints[lhsIndex] was zeroed
RECURSIVE ReuseJacobiLoop(_, _, _, _, _, _)
ReuseJacobiLoop(t, w, adj, activeVariables, jc, g) ==
  IF activeVariables = 0 THEN w
  ELSE LET dataPos == w.dataPos - 1
           rec == JacobiAt(t, jc, dataPos, g)
           inside == JacobiInside(t, jc, dataPos) /\ AdjInside(w.adj, rec[2])
           newAdj == IF AdjInside(w.adj, rec[2])
                     THEN [w.adj EXCEPT ![rec[2] + 1] = RealAdd(@, RealMul(adj, rec[1]))]
                     ELSE w.adj
       IN ReuseJacobiLoop(t, [w EXCEPT !.dataPos = dataPos, !.adj = newAdj,
                                       !.oob = @ \/ ~inside,
                                       !.writes = @ + 1],
                          adj, activeVariables - 1, jc, g)

\* evaluateExpressions that does not zero adjoints[lhsIndex] after reading it
RECURSIVE ReuseEvaluateExpressionsKeepAdjoint(_, _, _, _, _, _, _)
ReuseEvaluateExpressionsKeepAdjoint(t, w, endStmtPos, sc, jc, zopt, g) ==
  IF w.stmtPos > endStmtPos
  THEN LET stmtPos == w.stmtPos - 1
           lhsIndex == StmtAt(t, sc, stmtPos)[2]
           adj == AdjAt(w.adj, lhsIndex)
           activeVariables == StmtAt(t, sc, stmtPos)[1]
           w1 == [w EXCEPT !.stmtPos = stmtPos,
                           !.oob = @ \/ ~StmtInside(t, sc, stmtPos)
                                     \/ ~AdjInside(w.adj, lhsIndex)]
           w2 == IF (~zopt) \/ adj # 0
                 THEN ReuseJacobiLoop(t, w1, adj, activeVariables, jc, g)
                 ELSE [w1 EXCEPT !.dataPos = @ - activeVariables]
       IN ReuseEvaluateExpressionsKeepAdjoint(t, StmtDone(w, w2, sc, stmtPos, adj),
                                              endStmtPos, sc, jc, zopt, g)
  ELSE w

\* ChunkIndexReuseTape::evaluateExpressions(stmtPos, endStmtPos,
\* numberOfArguments, lhsIndices, dataPos, jacobies, indices)
RECURSIVE ReuseEvaluateExpressions(_, _, _, _, _, _, _)
ReuseEvaluateExpressions(t, w, endStmtPos, sc, jc, zopt, g) ==
  IF w.stmtPos > endStmtPos
  THEN LET stmtPos == w.stmtPos - 1
           lhsIndex == StmtAt(t, sc, stmtPos)[2]
           adj == AdjAt(w.adj, lhsIndex)
           activeVariables == StmtAt(t, sc, stmtPos)[1]
           w1 == [w EXCEPT !.stmtPos = stmtPos,
                           !.adj = IF AdjInside(w.adj, lhsIndex)
                                   THEN [w.adj EXCEPT ![lhsIndex + 1] = 0] ELSE w.adj,
                           !.writes = @ + 1,
                           !.oob = @ \/ ~StmtInside(t, sc, stmtPos)
                                     \/ ~AdjInside(w.adj, lhsIndex)]
           w2 == IF (~zopt) \/ adj # 0
                 THEN ReuseJacobiLoop(t, w1, adj, activeVariables, jc, g)
                 ELSE [w1 EXCEPT !.dataPos = @ - activeVariables]
       IN ReuseEvaluateExpressions(t, StmtDone(w, w2, sc, stmtPos, adj),
                                   endStmtPos, sc, jc, zopt, g)
  ELSE w

\* ChunkIndexReuseTape::evaluateData, the loop over the jacobian chunks
RECURSIVE ReuseDataLoop(_, _, _, _, _, _, _, _)
ReuseDataLoop(t, w, curChunk, end, stmtPosEnd, sc, zopt, g) ==
  LET more == curChunk > end.chunk
      w1 == ReuseEvaluateExpressions(t, w, stmtPosEnd, sc, curChunk, zopt, g)
  IN IF more
     THEN ReuseDataLoop(t, [w1 EXCEPT !.dataPos = CVGetChunkUsedData(t.data, curChunk - 1)],
                        curChunk - 1, end, stmtPosEnd, sc, zopt, g)
     ELSE w1

\* ChunkIndexReuseTape::evaluateData(start, end, stmtPosStart, stmtPosEnd, ...)
ReuseEvaluateData(t, w, start, end, stmtPosEnd, sc, zopt, g) ==
  ReuseDataLoop(t, [w EXCEPT !.dataPos = start.data], start.chunk, end,
                stmtPosEnd, sc, zopt, g)

\* ChunkIndexReuseTape::evaluateStmt, the loop over the statement chunks
RECURSIVE ReuseStmtLoop(_, _, _, _, _, _, _)
ReuseStmtLoop(t, w, curChunk, curInnerPos, end, zopt, g) ==
  LET more == curChunk > end.chunk
      endInnerPos == IF more THEN CVGetInnerPosition(t.statements, curChunk) ELSE end.inner
      w1 == ReuseEvaluateData(t, w, curInnerPos, endInnerPos, IF more THEN 0 ELSE end.data,
                              curChunk, zopt, g)
  IN IF more
     THEN ReuseStmtLoop(t, [w1 EXCEPT !.stmtPos = CVGetChunkUsedData(t.statements, curChunk - 1)],
                        curChunk - 1, endInnerPos, end, zopt, g)
     ELSE w1

\* ChunkIndexReuseTape::evaluateStmt(start, end)
ReuseEvaluateStmt(t, w, start, end, zopt, g) ==
  ReuseStmtLoop(t, [w EXCEPT !.stmtPos = start.data], start.chunk, start.inner,
                end, zopt, g)

EvaluateStmt(t, w, start, end, zopt, g) ==
  IF t.kind = "linear" THEN LinearEvaluateStmt(t, w, start, end, zopt, g)
  ELSE ReuseEvaluateStmt(t, w, start, end, zopt, g)

\* an evaluator that calls the external function before it evaluates the
\* statements above the function's position
ExtFuncEvaluatorCallFirst(t, ev, rec, zopt, g) ==
  LET w0 == [ev.w EXCEPT !.trace = Append(@, <<"ext", rec[1]>>)]
  IN [w |-> EvaluateStmt(t, w0, ev.curInnerPos, rec[2], zopt, g),
      curInnerPos |-> rec[2]]

\* ExtFuncEvaluator::operator()(data) on ev = [w, curInnerPos]
ExtFuncEvaluator(t, ev, rec, zopt, g) ==
  LET w1 == EvaluateStmt(t, ev.w, ev.curInnerPos, rec[2], zopt, g)
  IN [w |-> [w1 EXCEPT !.trace = Append(@, <<"ext", rec[1]>>)],
      curInnerPos |-> rec[2]]

\* externalFunctions.forEach(start, end, evaluator)
RECURSIVE ForEachEvaluator(_, _, _, _, _, _)
ForEachEvaluator(t, ev, recs, i, zopt, g) ==
  IF i > Len(recs) THEN ev
  ELSE ForEachEvaluator(t, ExtFuncEvaluator(t, ev, recs[i], zopt, g), recs, i + 1, zopt, g)

\* evaluateExtFunc that iterates the external functions down to Position()
EvaluateExtFuncToZero(t, w, start, end, zopt, g) ==
  LET evaluator == [w |-> w, curInnerPos |-> start.inner]
      recs == CVForEach(t.externalFunctions, start.chunk, start.data, 0, 0)
      ev == ForEachEvaluator(t, evaluator, recs, 1, zopt, g)
  IN EvaluateStmt(t, ev.w, ev.curInnerPos, end.inner, zopt, g)

\* evaluateExtFunc(start, end)
EvaluateExtFunc(t, w, start, end, zopt, g) ==
  LET evaluator == [w |-> w, curInnerPos |-> start.inner]
      recs == CVForEach(t.externalFunctions, start.chunk, start.data, end.chunk, end.data)
      ev == ForEachEvaluator(t, evaluator, recs, 1, zopt, g)
  IN EvaluateStmt(t, ev.w, ev.curInnerPos, end.inner, zopt, g)

\* evaluate(start, end): the walk state after the call
EvaluateOp(t, adj, start, end, zopt, g) ==
  LET adj0 == IF Len(adj) <= MaxIndex(t) THEN ResizeAdjoints(adj, MaxIndex(t) + 1)
              ELSE adj
  IN EvaluateExtFunc(t, WalkStart(adj0), start, end, zopt, g)

(***************************************************************************)
(* reset(pos) and the adjoint vector.                                      *)
(***************************************************************************)
\* for(i = lo; i <= hi; ++i) adjoints[i] = 0.0, the writes that stay inside
ClearRange(adj, lo, hi) ==
  [i \in 1..Len(adj) |-> IF lo <= i - 1 /\ i - 1 <= hi THEN 0 ELSE adj[i]]

\* whether that loop writes outside the adjoint vector
ClearRangeOutside(adj, lo, hi) == lo <= hi /\ hi >= Len(adj)

\* the first index reset(pos) zeroes: pos.inner.inner.inner on the linear
\* tape, 0 (clearAdjoints()) on the reuse tape
ResetClearFrom(t, pos) == IF t.kind = "linear" THEN pos.inner.inner.inner ELSE 0

\* a forEach over the whole external function log, whatever pos is
PopExternalFunctionsToZero(t, pos) ==
  LET head == TapePosition(t)
      recs == CVForEach(t.externalFunctions, head.chunk, head.data, 0, 0)
  IN [i \in 1..Len(recs) |-> recs[i][1]]

\* externalFunctions.forEach(getPosition(), pos, popExternalFunction):
\* the external functions whose deleteData is called, in call order
PopExternalFunctions(t, pos) ==
  LET head == TapePosition(t)
      recs == CVForEach(t.externalFunctions, head.chunk, head.data, pos.chunk, pos.data)
  IN [i \in 1..Len(recs) |-> recs[i][1]]

\* externalFunctions.reset(pos), iteratively through the nested vectors,
\* and (reuse tape) indexHandler.reset()
ResetVectors(t, pos) ==
  [t EXCEPT !.externalFunctions = CVReset(@, pos),
            !.statements = CVReset(@, pos.inner),
            !.data = CVReset(@, pos.inner.inner),
            !.count = IF t.kind = "linear" THEN pos.inner.inner.inner ELSE @,
            !.indexHandler = IF t.kind = "linear" THEN @ ELSE IHReset(@)]

\* reset(pos): [tape, adj, popped, outside]
ResetOp(t, adj, pos) ==
  [tape |-> ResetVectors(t, pos),
   adj |-> ClearRange(adj, ResetClearFrom(t, pos), MaxIndex(t)),
   popped |-> PopExternalFunctions(t, pos),
   outside |-> ClearRangeOutside(adj, ResetClearFrom(t, pos), MaxIndex(t))]

\* a gradient(index) that allocates a fresh vector when it has to grow
GradientAssignFresh(adj, index, gradient) ==
  LET a == IF Len(adj) <= index THEN [i \in 1..(index + 1) |-> 0] ELSE adj
  IN [a EXCEPT ![index + 1] = gradient]

\* gradient(index) = gradient, for index # 0
GradientAssign(adj, index, gradient) ==
  LET a == IF Len(adj) <= index THEN ResizeAdjoints(adj, index + 1) ELSE adj
  IN [a EXCEPT ![index + 1] = gradient]

\* a setGradient without the test for the inactive index
SetGradientOpUnchecked(adj, index, gradient) == GradientAssign(adj, index, gradient)

\* setGradient(index, gradient)
SetGradientOp(adj, index, gradient) ==
  IF 0 # index THEN GradientAssign(adj, index, gradient) ELSE adj

\* getGradient(index): the value returned
GetGradientOp(adj, index) == IF Len(adj) <= index THEN 0 ELSE adj[index + 1]

\* ChunkIndexReuseTape::allocateAdjoints().  ChunkTape::allocateAdjoints adds
\* 1 to the counter object itself, which no instantiation compiles, so only
\* the reuse tape has the operation.
AllocateAdjointsOp(t, adj) == ResizeAdjoints(adj, MaxIndex(t) + 1)

\* ChunkIndexReuseTape::setAdjointsSize(adjointsSize)
SetAdjointsSizeOp(adj, size) == ResizeAdjoints(adj, size)

\* clearAdjoints(): [adj, outside]
ClearAdjointsOp(t, adj) ==
  [adj |-> ClearRange(adj, 0, MaxIndex(t)),
   outside |-> ClearRangeOutside(adj, 0, MaxIndex(t))]

\* clearAdjoints(start, end): [adj, outside]
ClearAdjointsRangeOp(adj, start, end) ==
  [adj |-> ClearRange(adj, start.inner.inner.inner, end.inner.inner.inner),
   outside |-> ClearRangeOutside(adj, start.inner.inner.inner, end.inner.inner.inner)]

(***************************************************************************)
(* The state after construction.  The chunk sizes are the ones the program *)
(* sets with setDataChunkSize, setStatementChunkSize and                   *)
(* setExternalFunctionChunkSize before it records.                         *)
(***************************************************************************)
NoLast ==
  [op |-> "init", sN |-> 0, eN |-> 0, sX |-> 0, eX |-> 0, trace |-> <<>>,
   lhs |-> "none", value |-> 0, index |-> 0, size |-> 0, rhs |-> 0]

NoSaved == [valid |-> FALSE, pos |-> ZeroPosition, nstmt |-> 0, next |-> 0]

InitTape(kinds, dataSizes, stmtSizes, extSizes) ==
  /\ kind \in kinds
  /\ active = FALSE
  /\ count = 0
  /\ indexHandler = IHNew
  /\ \E n \in dataSizes : data = CVNew(n, 0)
  /\ \E n \in stmtSizes :
       statements = CVNew(n, [chunk |-> 0, data |-> 0, inner |-> 0])
  /\ \E n \in extSizes :
       externalFunctions = CVNew(n, ZeroPosition.inner)
  /\ adjoints = <<>>
  /\ reals = [r \in Reals |-> [value |-> 1, gradientData |-> 0]]
  /\ saved = NoSaved
  /\ fault = "none"
  /\ hist = <<>>
  /\ extHist = <<>>
  /\ deleted = [f \in 1..MaxExt |-> 0]
  /\ extCount = 0
  /\ evals = 0
  /\ last = NoLast

Init == InitTape({"linear", "reuse"}, MaxArgs..MaxDataChunk, 1..MaxChunk, 1..MaxChunk)

(***************************************************************************)
(* The operations.                                                         *)
(***************************************************************************)
\* room for one more statement
Room == Len(hist) < (IF kind = "linear" THEN MaxStmts ELSE MaxStmtsReuse)

SetTape(t) ==
  /\ count' = t.count
  /\ indexHandler' = t.indexHandler
  /\ data' = t.data
  /\ statements' = t.statements
  /\ externalFunctions' = t.externalFunctions

\* the jacobian records a store appended: those of the current chunk of d2
\* beyond the used size the chunk had after the reservation
Pushed(t, t2) ==
  LET c == t2.data.chunks[Len(t2.data.chunks)]
      before == IF Len(t2.data.chunks) = Len(t.data.chunks) THEN CVGetChunkPosition(t.data) ELSE 0
  IN SubSeq(c, before + 1, Len(c))

\* the statement log grew by one record
PushedStmt(t, t2) == Len(Flatten(t2.statements.chunks)) > Len(Flatten(t.statements.chunks))

Record(t, t2, lhsIndex) ==
  hist' = IF PushedStmt(t, t2)
          THEN Append(hist, [lhs |-> lhsIndex, args |-> Pushed(t, t2)])
          ELSE hist

SetActive ==
  /\ fault = "none"
  /\ active' = TRUE
  /\ last' = [NoLast EXCEPT !.op = "setActive"]
  /\ UNCHANGED <<kind, tapeVars, adjoints, reals, saved, fault, hist, extHist, deleted,
                 extCount, evals>>

SetPassive ==
  /\ fault = "none"
  /\ active' = FALSE
  /\ last' = [NoLast EXCEPT !.op = "setPassive"]
  /\ UNCHANGED <<kind, tapeVars, adjoints, reals, saved, fault, hist, extHist, deleted,
                 extCount, evals>>

RegisterInput(r) ==
  /\ fault = "none"
  /\ Room
  /\ LET res == IF kind = "linear" THEN RegisterInputLinear(Tape, reals[r].gradientData)
                ELSE RegisterInputReuse(Tape, reals[r].gradientData)
     IN /\ SetTape(res.tape)
        /\ reals' = [reals EXCEPT ![r].gradientData = res.index]
        /\ Record(Tape, res.tape, res.index)
  /\ last' = [NoLast EXCEPT !.op = "registerInput", !.lhs = r]
  /\ UNCHANGED <<kind, active, adjoints, saved, fault, extHist, deleted, extCount, evals>>

Store(lhs, rhs, rhsValue) ==
  /\ fault = "none"
  /\ Room
  /\ LET res == IF kind = "linear"
                THEN StoreLinear(Tape, reals[lhs].value, reals[lhs].gradientData, rhs, rhsValue, reals)
                ELSE StoreReuse(Tape, reals[lhs].value, reals[lhs].gradientData, rhs, rhsValue, reals)
     IN /\ SetTape(res.tape)
        /\ reals' = [reals EXCEPT ![lhs] = [value |-> res.lhsValue, gradientData |-> res.lhsIndex]]
        /\ Record(Tape, res.tape, res.lhsIndex)
  /\ last' = [NoLast EXCEPT !.op = "store", !.lhs = lhs, !.value = rhsValue,
                            !.index = reals[lhs].gradientData]
  /\ UNCHANGED <<kind, active, adjoints, saved, fault, extHist, deleted, extCount, evals>>

StoreCopy(lhs, rhs) ==
  /\ fault = "none"
  /\ Room
  /\ LET res == IF kind = "linear"
                THEN StoreCopyLinear(Tape, reals[lhs].value, reals[lhs].gradientData,
                                     reals[rhs].value, reals[rhs].gradientData)
                ELSE StoreCopyReuse(Tape, reals[lhs].value, reals[lhs].gradientData,
                                    reals[rhs].value, reals[rhs].gradientData)
     IN /\ SetTape(res.tape)
        /\ reals' = [reals EXCEPT ![lhs] = [value |-> res.lhsValue, gradientData |-> res.lhsIndex]]
        /\ Record(Tape, res.tape, res.lhsIndex)
  /\ last' = [NoLast EXCEPT !.op = "storeCopy", !.lhs = lhs, !.value = reals[rhs].value,
                            !.index = reals[lhs].gradientData,
                            !.rhs = reals[rhs].gradientData]
  /\ UNCHANGED <<kind, active, adjoints, saved, fault, extHist, deleted, extCount, evals>>

StorePassive(lhs, rhs) ==
  /\ fault = "none"
  /\ LET res == IF kind = "linear"
                THEN StorePassiveLinear(Tape, reals[lhs].value, reals[lhs].gradientData, rhs)
                ELSE StorePassiveReuse(Tape, reals[lhs].value, reals[lhs].gradientData, rhs)
     IN /\ SetTape(res.tape)
        /\ reals' = [reals EXCEPT ![lhs] = [value |-> res.lhsValue, gradientData |-> res.lhsIndex]]
  /\ last' = [NoLast EXCEPT !.op = "storePassive", !.lhs = lhs, !.value = rhs,
                            !.index = reals[lhs].gradientData]
  /\ UNCHANGED <<kind, active, adjoints, saved, fault, hist, extHist, deleted, extCount, evals>>

DestroyGradientData(r) ==
  /\ fault = "none"
  /\ LET res == DestroyGradientDataOp(Tape, reals[r].gradientData)
     IN /\ SetTape(res.tape)
        /\ reals' = [reals EXCEPT ![r].gradientData = res.index]
  /\ last' = [NoLast EXCEPT !.op = "destroyGradientData"]
  /\ UNCHANGED <<kind, active, adjoints, saved, fault, hist, extHist, deleted, extCount, evals>>

SetGradient(r, gradient) ==
  /\ fault = "none"
  /\ adjoints' = SetGradientOp(adjoints, reals[r].gradientData, gradient)
  /\ last' = [NoLast EXCEPT !.op = "setGradient", !.index = reals[r].gradientData,
                            !.value = gradient, !.size = Len(adjoints)]
  /\ UNCHANGED <<kind, active, tapeVars, reals, saved, fault, hist, extHist, deleted,
                 extCount, evals>>

PushExternalFunctionHandle ==
  /\ fault = "none"
  /\ extCount < MaxExt
  /\ SetTape(PushExternalFunctionHandleOp(Tape, extCount + 1))
  /\ extCount' = extCount + 1
  /\ extHist' = Append(extHist, [func |-> extCount + 1, nstmt |-> Len(hist)])
  /\ last' = [NoLast EXCEPT !.op = "pushExternalFunctionHandle"]
  /\ UNCHANGED <<kind, active, adjoints, reals, saved, fault, hist, deleted, evals>>

\* p = getPosition()
SavePosition ==
  /\ fault = "none"
  /\ saved' = [valid |-> TRUE, pos |-> TapePosition(Tape), nstmt |-> Len(hist),
               next |-> Len(extHist)]
  /\ last' = [NoLast EXCEPT !.op = "getPosition"]
  /\ UNCHANGED <<kind, active, tapeVars, adjoints, reals, fault, hist, extHist, deleted,
                 extCount, evals>>

\* the positions the program can pass: the head, the saved one, Position()
HeadPos == [valid |-> TRUE, pos |-> TapePosition(Tape), nstmt |-> Len(hist),
            next |-> Len(extHist)]
ZeroPos == [NoSaved EXCEPT !.valid = TRUE]

\* reset(pos) with p = [pos, nstmt, next]
ResetAt(p, op) ==
  /\ fault = "none"
  /\ LET res == ResetOp(Tape, adjoints, p.pos)
     IN IF ~res.outside
        THEN /\ SetTape(res.tape)
             /\ adjoints' = res.adj
             /\ deleted' = [f \in 1..MaxExt |->
                              deleted[f] + Cardinality({i \in 1..Len(res.popped) : res.popped[i] = f})]
             /\ hist' = SubSeq(hist, 1, p.nstmt)
             /\ extHist' = SubSeq(extHist, 1, p.next)
             /\ fault' = "none"
        ELSE \* adjoints[i] = 0.0 outside the vector: a null pointer write when
             \* nothing is allocated, a heap overflow otherwise
             /\ fault' \in (IF adjoints = <<>> THEN {"segv"} ELSE {"segv", "oob"})
             /\ UNCHANGED <<tapeVars, adjoints, deleted, hist, extHist>>
  /\ last' = [NoLast EXCEPT !.op = op, !.eN = p.nstmt, !.eX = p.next]
  /\ UNCHANGED <<kind, active, reals, extCount, evals>>

ResetTo ==
  /\ saved.valid
  /\ ResetAt(saved, "resetTo")
  /\ UNCHANGED saved

Reset ==
  /\ ResetAt(ZeroPos, "reset")
  /\ saved' = NoSaved

\* x = tape.getGradient(index)
GetGradient(index) ==
  /\ fault = "none"
  /\ last' = [NoLast EXCEPT !.op = "getGradient", !.index = index,
                            !.value = GetGradientOp(adjoints, index),
                            !.size = Len(adjoints)]
  /\ UNCHANGED <<kind, active, tapeVars, adjoints, reals, saved, fault, hist, extHist,
                 deleted, extCount, evals>>

\* tape.gradient(index) = gradient; assert(0 != index) ends the program
Gradient(index, gradient) ==
  /\ fault = "none"
  /\ IF 0 # index
     THEN adjoints' = GradientAssign(adjoints, index, gradient) /\ fault' = "none"
     ELSE fault' = "assert" /\ UNCHANGED adjoints
  /\ last' = [NoLast EXCEPT !.op = "gradient", !.index = index, !.value = gradient,
                            !.size = Len(adjoints)]
  /\ UNCHANGED <<kind, active, tapeVars, reals, saved, hist, extHist, deleted, extCount,
                 evals>>

AllocateAdjoints ==
  /\ fault = "none"
  /\ kind = "reuse"
  /\ adjoints' = AllocateAdjointsOp(Tape, adjoints)
  /\ last' = [NoLast EXCEPT !.op = "allocateAdjoints"]
  /\ UNCHANGED <<kind, active, tapeVars, reals, saved, fault, hist, extHist, deleted,
                 extCount, evals>>

SetAdjointsSize(size) ==
  /\ fault = "none"
  /\ kind = "reuse"
  /\ adjoints' = SetAdjointsSizeOp(adjoints, size)
  /\ last' = [NoLast EXCEPT !.op = "setAdjointsSize", !.index = size]
  /\ UNCHANGED <<kind, active, tapeVars, reals, saved, fault, hist, extHist, deleted,
                 extCount, evals>>

ClearAdjoints ==
  /\ fault = "none"
  /\ LET res == ClearAdjointsOp(Tape, adjoints)
     IN IF ~res.outside
        THEN adjoints' = res.adj /\ fault' = "none"
        ELSE /\ fault' \in (IF adjoints = <<>> THEN {"segv"} ELSE {"segv", "oob"})
             /\ UNCHANGED adjoints
  /\ last' = [NoLast EXCEPT !.op = "clearAdjoints"]
  /\ UNCHANGED <<kind, active, tapeVars, reals, saved, hist, extHist, deleted, extCount,
                 evals>>

\* what a read outside a jacobian chunk may yield
Garbage == Jacobies \X {0, 1}

\* an evaluate that releases the external functions it has called
EvaluateAtDeleting(s, e, op) ==
  /\ fault = "none"
  /\ evals < MaxEvals
  /\ evals' = evals + 1
  /\ LET walk == [g \in Garbage |->
                    EvaluateOp(Tape, adjoints, s.pos, e.pos, OptZeroAdjoint, g)]
         g0 == CHOOSE g \in Garbage : TRUE
     IN \E g \in (IF walk[g0].oob THEN Garbage ELSE {g0}) :
       LET w == walk[g]
       IN /\ adjoints' = w.adj
          /\ fault' = IF w.oob THEN "oob" ELSE "none"
          /\ deleted' = [f \in 1..MaxExt |->
                           deleted[f] + Cardinality({k \in 1..Len(w.trace) :
                                                        w.trace[k] = <<"ext", f>>})]
          /\ last' = [NoLast EXCEPT !.op = op, !.sN = s.nstmt, !.eN = e.nstmt,
                                    !.sX = s.next, !.eX = e.next, !.trace = w.trace,
                                    !.size = Len(adjoints)]
  /\ UNCHANGED <<kind, active, tapeVars, reals, saved, hist, extHist, extCount>>

\* evaluate(start, end) with start >= end
EvaluateAt(s, e, op) ==
  /\ fault = "none"
  /\ evals < MaxEvals
  /\ evals' = evals + 1
  /\ LET walk == [g \in Garbage |->
                    EvaluateOp(Tape, adjoints, s.pos, e.pos, OptZeroAdjoint, g)]
         g0 == CHOOSE g \in Garbage : TRUE
     IN \E g \in (IF walk[g0].oob THEN Garbage ELSE {g0}) :
       LET w == walk[g]
       IN /\ adjoints' = w.adj
          /\ fault' = IF w.oob THEN "oob" ELSE "none"
          /\ last' = [NoLast EXCEPT !.op = op, !.sN = s.nstmt, !.eN = e.nstmt,
                                    !.sX = s.next, !.eX = e.next, !.trace = w.trace,
                                    !.size = Len(adjoints)]
  /\ UNCHANGED <<kind, active, tapeVars, reals, saved, hist, extHist, deleted, extCount>>

\* evaluate()
Evaluate == EvaluateAt(HeadPos, ZeroPos, "evaluate")

\* evaluate(start, end) with a saved position as start or end
EvaluateRange ==
  /\ saved.valid
  /\ \E range \in {<<HeadPos, saved>>, <<saved, ZeroPos>>} :
       EvaluateAt(range[1], range[2], "evaluateRange")

\* the ranges with start < end: the saved position as start and the head as
\* end, both in the same chunk of the statement log and with no external
\* function between them
ReversedRanges ==
  IF /\ saved.pos # HeadPos.pos
     /\ saved.next = HeadPos.next
     /\ saved.pos.inner.chunk = HeadPos.pos.inner.chunk
  THEN {<<saved, HeadPos>>}
  ELSE {}

\* evaluate(start, end) with a saved position as start or end, in either order
EvaluateStartEnd ==
  /\ saved.valid
  /\ \E range \in {<<HeadPos, saved>>, <<saved, ZeroPos>>} \cup ReversedRanges :
       EvaluateAt(range[1], range[2],
                  IF range \in ReversedRanges THEN "evaluateReversed"
                  ELSE "evaluateRange")

\* clearAdjoints(start, end) with s = [pos, nstmt, next] and e alike; last
\* keeps the innermost sub-positions of start and end as index and value
ClearAdjointsAt(s, e) ==
  /\ fault = "none"
  /\ LET res == ClearAdjointsRangeOp(adjoints, s.pos, e.pos)
     IN IF ~res.outside
        THEN adjoints' = res.adj /\ fault' = "none"
        ELSE /\ fault' \in (IF adjoints = <<>> THEN {"segv"} ELSE {"segv", "oob"})
             /\ UNCHANGED adjoints
  /\ last' = [NoLast EXCEPT !.op = "clearAdjointsRange", !.sN = s.nstmt, !.eN = e.nstmt,
                            !.index = s.pos.inner.inner.inner,
                            !.value = e.pos.inner.inner.inner,
                            !.size = Len(adjoints)]
  /\ UNCHANGED <<kind, active, tapeVars, reals, saved, hist, extHist, deleted, extCount,
                 evals>>

\* clearAdjoints(start, end) with the saved position, the head or Position()
\* as start and as end
ClearAdjointsRange ==
  /\ saved.valid
  /\ \E range \in {saved, HeadPos, ZeroPos} \X {saved, HeadPos, ZeroPos} :
       ClearAdjointsAt(range[1], range[2])

(***************************************************************************)
(* The programs.  Spec records with every recording operation, active and  *)
(* passive.  The other specifications are programs that record, seed and   *)
(* evaluate (SpecLinear, SpecReuse), that mix external functions into the  *)
(* recording and evaluate (SpecExt), and that rewind the tape (SpecReset). *)
(***************************************************************************)
Next ==
  \/ SetActive
  \/ SetPassive
  \/ \E r \in Reals : RegisterInput(r)
  \/ \E lhs \in Reals, rhs \in Exprs, v \in Values : Store(lhs, rhs, v)
  \/ \E lhs \in Reals, rhs \in Reals : StoreCopy(lhs, rhs)
  \/ \E lhs \in Reals, v \in Values : StorePassive(lhs, v)
  \/ \E r \in Reals : DestroyGradientData(r)

InitRecord == InitTape({"linear", "reuse"}, {MaxArgs}, 1..MaxChunk, {1})

Spec == InitRecord /\ [][Next]_vars

\* the program has not seeded or evaluated yet
RecordPhase == evals = 0 /\ \A i \in 1..Len(adjoints) : adjoints[i] = 0

NextEval ==
  \/ RecordPhase /\ SetActive
  \/ RecordPhase /\ \E r \in Reals : RegisterInput(r)
  \/ RecordPhase /\ \E lhs \in Reals, rhs \in Exprs : Store(lhs, rhs, 1)
  \/ RecordPhase /\ \E lhs \in Reals, rhs \in Reals : StoreCopy(lhs, rhs)
  \/ RecordPhase /\ SavePosition
  \/ evals < MaxEvals /\ \E r \in Reals : SetGradient(r, 1)
  \/ Evaluate
  \/ EvaluateRange

InitLinear == InitTape({"linear"}, MaxArgs..MaxDataChunk, 1..MaxChunk, {1})
InitReuse == InitTape({"reuse"}, MaxArgs..MaxDataChunk, 1..MaxChunk, {1})

SpecLinear == InitLinear /\ [][NextEval]_vars
SpecReuse == InitReuse /\ [][NextEval]_vars

\* right-hand sides over the variable x alone, and those with one argument
ExprsX == {e \in Exprs : \A i \in 1..Len(e) : e[i].real = "x"}
Exprs1 == {e \in Exprs : Len(e) = 1}

NextExt ==
  \/ evals = 0 /\ SetActive
  \/ evals = 0 /\ SetPassive
  \/ evals = 0 /\ RegisterInput("x")
  \/ evals = 0 /\ \E rhs \in ExprsX : Store("x", rhs, 1)
  \/ evals = 0 /\ PushExternalFunctionHandle
  \/ evals = 0 /\ SavePosition
  \/ Evaluate
  \/ EvaluateStartEnd

InitExt == InitTape({"linear", "reuse"}, {MaxDataChunk}, 1..MaxChunk, 1..MaxChunk)

SpecExt == InitExt /\ [][NextExt]_vars

\* room for one more statement in a program that rewinds
RoomReset == Len(hist) < MaxStmtsReset

NextReset ==
  \/ SetActive
  \/ RoomReset /\ \E r \in Reals : RegisterInput(r)
  \/ RoomReset /\ \E rhs \in Exprs1 : Store("x", rhs, 1)
  \/ SetGradient("x", 1)
  \/ PushExternalFunctionHandle
  \/ SavePosition
  \/ ResetTo
  \/ Reset

InitReset == InitTape({"linear", "reuse"}, {MaxDataChunk}, {MaxChunk}, 1..MaxChunk)

SpecReset == InitReset /\ [][NextReset]_vars

\* a program that works on the adjoint vector: it reads, writes, sizes and
\* clears it around a short recording
NextAdj ==
  \/ SetActive
  \/ RoomReset /\ RegisterInput("x")
  \/ RoomReset /\ \E lhs \in Reals, rhs \in Exprs1 : Store(lhs, rhs, 1)
  \/ \E r \in Reals, g \in Values : SetGradient(r, g)
  \/ \E index \in 0..MaxAdjIndex : Gradient(index, 1)
  \/ \E index \in 0..MaxAdjIndex : GetGradient(index)
  \/ AllocateAdjoints
  \/ \E size \in 0..MaxAdjIndex : SetAdjointsSize(size)
  \/ ClearAdjoints
  \/ SavePosition
  \/ ResetTo
  \/ Reset
  \/ Evaluate

InitAdj == InitTape({"linear", "reuse"}, {MaxDataChunk}, {MaxChunk}, {1})

SpecAdj == InitAdj /\ [][NextAdj]_vars

\* right-hand sides with one argument whose jacobian is not finite
ExprsNonFinite == {<<[jacobi |-> Inf, real |-> r]>> : r \in Reals}

\* a program that records finite and non-finite jacobians, seeds and evaluates
NextZero ==
  \/ RecordPhase /\ SetActive
  \/ RecordPhase /\ RegisterInput("x")
  \/ RecordPhase /\ \E lhs \in Reals, rhs \in Exprs \cup ExprsNonFinite : Store(lhs, rhs, 1)
  \/ evals < MaxEvals /\ \E r \in Reals : SetGradient(r, 1)
  \/ Evaluate

InitZero == InitTape({"linear", "reuse"}, {MaxDataChunk}, {MaxChunk}, {1})

SpecZero == InitZero /\ [][NextZero]_vars

\* a program that records with every kind of store and pushes external
\* functions between the statements
NextAlign ==
  \/ SetActive
  \/ \E r \in Reals : RegisterInput(r)
  \/ \E lhs \in Reals, rhs \in Exprs : Store(lhs, rhs, 1)
  \/ \E lhs \in Reals, rhs \in Reals : StoreCopy(lhs, rhs)
  \/ PushExternalFunctionHandle

InitAlign == InitTape({"linear", "reuse"}, {MaxArgs}, 1..MaxChunk, {MaxChunk})

SpecAlign == InitAlign /\ [][NextAlign]_vars

\* a program that records, seeds adjoints and clears them between two
\* positions
NextClear ==
  \/ SetActive
  \/ \E r \in Reals : RegisterInput(r)
  \/ \E lhs \in Reals, rhs \in Exprs1 : Store(lhs, rhs, 1)
  \/ \E index \in 0..MaxAdjIndex : Gradient(index, 1)
  \/ SavePosition
  \/ ClearAdjointsRange

InitClear == InitTape({"linear", "reuse"}, {MaxDataChunk}, {MaxChunk}, {1})

SpecClear == InitClear /\ [][NextClear]_vars

\* right-hand sides with as many arguments as a StatementInt can hold, one
\* less and one more, next to the short ones
MaxWide == StatementIntRange + 1
ExprsWide ==
  {[i \in 1..n |-> [jacobi |-> 1, real |-> "x"]] :
     n \in {StatementIntRange - 1, StatementIntRange, MaxWide}}

\* a program that records statements with many arguments
NextWide ==
  \/ SetActive
  \/ \E r \in Reals : RegisterInput(r)
  \/ \E lhs \in Reals, rhs \in Exprs1 \cup ExprsWide : Store(lhs, rhs, 1)
  \/ \E lhs \in Reals, rhs \in Reals : StoreCopy(lhs, rhs)

InitWide == InitTape({"linear", "reuse"}, {MaxWide}, {MaxChunk}, {1})

SpecWide == InitWide /\ [][NextWide]_vars

(***************************************************************************)
(* The reverse pass the specification asks for, computed from the history  *)
(* of recorded statements instead of from the chunks.                      *)
(***************************************************************************)
Max(a, b) == IF a >= b THEN a ELSE b

\* adj[rhs_k] += a * jacobian_k for the arguments a statement's store appended
RECURSIVE RefArgs(_, _, _, _)
RefArgs(adj, args, a, k) ==
  IF k > Len(args) THEN adj
  ELSE RefArgs([adj EXCEPT ![args[k][2] + 1] = @ + a * args[k][1]], args, a, k + 1)

\* linear tape: the statements h[i], ..., h[e + 1], in this order; the lhs
\* index of h[i] is i, the number of statements recorded before it plus 1
RECURSIVE RefLinear(_, _, _, _)
RefLinear(adj, h, i, e) ==
  IF i <= e THEN adj
  ELSE RefLinear(RefArgs(adj, h[i].args, adj[i + 1], 1), h, i - 1, e)

\* reuse tape: a = adj[lhs] is read, adj[lhs] is zeroed, then the updates
RECURSIVE RefReuse(_, _, _, _)
RefReuse(adj, h, i, e) ==
  IF i <= e THEN adj
  ELSE RefReuse(RefArgs([adj EXCEPT ![h[i].lhs + 1] = 0], h[i].args, adj[h[i].lhs + 1], 1),
                h, i - 1, e)

\* the adjoint vector evaluate works on: grown to the largest index in use
Grown(adj) == ResizeAdjoints(adj, Max(Len(adj), MaxIndex(Tape) + 1))

\* number, in recording order, of the statement at offset off of chunk sc
StmtNo(sc, off) == Len(Flatten(SubSeq(statements.chunks, 1, sc))) + off + 1

IsStmt(ev) == ev[1] = "stmt"
IsExt(ev) == ev[1] = "ext"

\* the statements a walk processed, by number, in processing order
StmtEvents(trace) ==
  LET evs == SelectSeq(trace, IsStmt)
  IN [k \in 1..Len(evs) |-> StmtNo(evs[k][2], evs[k][3])]

\* the external functions a walk called, in call order
ExtEvents(trace) ==
  LET evs == SelectSeq(trace, IsExt)
  IN [k \in 1..Len(evs) |-> evs[k][2]]

\* n, n - 1, ..., m + 1
Descending(n, m) == [k \in 1..(n - m) |-> n - k + 1]

\* this step is a call of evaluate
EvalStep == last'.op \in {"evaluate", "evaluateRange"} /\ evals' = evals + 1

(***************************************************************************)
(* C1: on the linear tape evaluate(start, end) with start >= end performs  *)
(* adj[rhs_k] += adj[lhs] * jacobian_k for exactly the jacobians of every  *)
(* statement in (end, start], in descending order of the lhs index, and    *)
(* for no other statement, whatever the chunk sizes are.                   *)
(***************************************************************************)
C1_LinearChainRule ==
  [][(kind = "linear" /\ EvalStep) =>
       /\ fault' = "none"
       /\ adjoints' = RefLinear(Grown(adjoints), hist, last'.sN, last'.eN)
       /\ StmtEvents(last'.trace) = Descending(last'.sN, last'.eN)]_vars

\* an evaluation of a linear tape whose statements and jacobians span
\* several chunks, with a seed that reached an argument twice
C1_Witness ==
  /\ kind = "linear"
  /\ last.op \in {"evaluate", "evaluateRange"}
  /\ fault = "none"
  /\ Len(data.chunks) >= 2
  /\ Len(statements.chunks) >= 2
  /\ Len(SelectSeq(last.trace, IsStmt)) >= 2
  /\ \E i \in 1..Len(adjoints) : adjoints[i] >= 2

(***************************************************************************)
(* C2: on the reuse tape evaluate(start, end) with start >= end performs,  *)
(* for every statement in (end, start] in descending recording order,      *)
(* adj[rhs_k] += a * jacobian_k (a = adj[lhs] as read for the statement)   *)
(* for exactly the jacobians of that statement, for every choice of chunk  *)
(* sizes: no jacobian is read outside the chunk the cursor is in.          *)
(***************************************************************************)
C2_ReuseChainRule ==
  [][(kind = "reuse" /\ EvalStep) =>
       /\ fault' = "none"
       /\ adjoints' = RefReuse(Grown(adjoints), hist, last'.sN, last'.eN)
       /\ StmtEvents(last'.trace) = Descending(last'.sN, last'.eN)]_vars

\* the last operation was a call of evaluate
Evaluated == last.op \in {"evaluate", "evaluateRange"}

(***************************************************************************)
(* C3: during one evaluate(start, end) the callback of every external      *)
(* function recorded in (end, start] is invoked exactly once, in strictly  *)
(* descending position order, and no callback of a record outside          *)
(* (end, start] is invoked.                                                *)
(***************************************************************************)
C3_ExtOnceDescending ==
  Evaluated =>
    ExtEvents(last.trace) = [k \in 1..(last.sX - last.eX) |-> extHist[last.sX - k + 1].func]

\* both external functions were called, the later one first, with a
\* statement evaluated in between, from a log of more than one chunk
C3_Witness ==
  /\ Evaluated
  /\ ExtEvents(last.trace) = <<2, 1>>
  /\ Len(externalFunctions.chunks) >= 2
  /\ \E k \in 2..(Len(last.trace) - 1) :
       IsStmt(last.trace[k]) /\ IsExt(last.trace[k - 1]) /\ IsExt(last.trace[k + 1])

\* the number of statements recorded before external function f was pushed
Boundary(f) == (CHOOSE e \in {extHist[i] : i \in 1..Len(extHist)} : e.func = f).nstmt

(***************************************************************************)
(* C4: when the callback of an external function with boundary b is        *)
(* invoked during evaluate(start, end), every statement recorded after b   *)
(* (and at or before start) has been processed and no statement recorded   *)
(* at or before b has; the statements at or below the lowest boundary are  *)
(* processed after the last callback, down to end.                         *)
(***************************************************************************)
C4_ExtBoundary ==
  Evaluated =>
    /\ \A k \in 1..Len(last.trace) :
         IsExt(last.trace[k]) =>
           StmtEvents(SubSeq(last.trace, 1, k - 1))
             = Descending(last.sN, Boundary(last.trace[k][2]))
    /\ StmtEvents(last.trace) = Descending(last.sN, last.eN)

\* a callback with statements evaluated before it and after it
C4_Witness ==
  /\ Evaluated
  /\ \E k \in 2..(Len(last.trace) - 1) :
       /\ IsExt(last.trace[k])
       /\ IsStmt(last.trace[k - 1])
       /\ IsStmt(last.trace[k + 1])
       /\ Len(statements.chunks) >= 2

\* the last operation was a call of reset
Rewound == last.op \in {"reset", "resetTo"}

\* whether external function f is recorded above the n-th record
ExtAbove(f, n) == \E i \in (n + 1)..Len(extHist) : extHist[i].func = f

(***************************************************************************)
(* C5: reset(pos) invokes the delete function of every external function   *)
(* recorded strictly above pos exactly once, of none at or below pos, and  *)
(* before the record leaves the log; over any sequence of                  *)
(* pushExternalFunctionHandle and reset no delete function is invoked      *)
(* twice.                                                                  *)
(***************************************************************************)
C5_ResetDeletesOnce ==
  [][Rewound' =>
       \A f \in 1..MaxExt :
         /\ deleted'[f] = deleted[f] + (IF ExtAbove(f, last'.eX) THEN 1 ELSE 0)
         /\ deleted'[f] <= 1]_vars

(***************************************************************************)
(* C6: rewind isolation.  After recording P, saving p = getPosition(),     *)
(* recording Q and calling reset(p), seeding an output of P and evaluating *)
(* from p gives the adjoints the statements of P alone give for that seed. *)
(***************************************************************************)
C6_RewindIsolation ==
  [][(last'.op = "resetTo" /\ saved.nstmt >= 1 /\ Len(hist) > saved.nstmt) =>
       /\ fault' = "none"
       /\ \A i \in 1..saved.nstmt :
            LET seeded == SetGradientOp(adjoints', hist[i].lhs, 1)
                w == EvaluateOp(Tape', seeded, saved.pos, ZeroPosition, OptZeroAdjoint,
                                CHOOSE g \in Garbage : TRUE)
                grown == ResizeAdjoints(seeded, Max(Len(seeded), MaxIndex(Tape') + 1))
            IN /\ ~w.oob
               /\ w.adj = IF kind = "linear"
                          THEN RefLinear(grown, hist', saved.nstmt, 0)
                          ELSE RefReuse(grown, hist', saved.nstmt, 0)]_vars

\* the indices the variables of the program hold
LiveIndices == {reals[r].gradientData : r \in Reals} \ {0}

(***************************************************************************)
(* C7: on the reuse tape, after any sequence of registerInput, store,      *)
(* destroyGradientData, reset(pos) and reset(), no two live variables hold *)
(* the same non-zero index, every free-list entry lies in [1, maxIssued],  *)
(* and no index is both held by a live variable and on the free list.      *)
(***************************************************************************)
C7_ReuseIndexSafety ==
  kind = "reuse" =>
    /\ \A r1, r2 \in Reals :
         (r1 # r2 /\ reals[r1].gradientData # 0)
           => reals[r1].gradientData # reals[r2].gradientData
    /\ \A i \in 1..Len(indexHandler.freeList) :
         /\ indexHandler.freeList[i] \in 1..indexHandler.maxIssued
         /\ indexHandler.freeList[i] \notin LiveIndices

(***************************************************************************)
(* C8: after every store call (expression, copy of a tracked variable,     *)
(* passive literal) on either tape lhsValue is the primal value of the     *)
(* right-hand side, whether the tape is active or passive and whether or   *)
(* not a record was appended.                                              *)
(***************************************************************************)
C8_StoreSetsValue ==
  last.op \in {"store", "storeCopy", "storePassive"} => reals[last.lhs].value = last.value

\* an expression was stored on a passive linear tape that holds statements,
\* and changed the value of its left-hand side
C8_Witness ==
  /\ last.op = "store"
  /\ kind = "linear"
  /\ ~active
  /\ hist # <<>>
  /\ reals["x"].value = 2
  /\ reals["y"].value = 1

(***************************************************************************)
(* C9: while the tape is passive no public operation (store in any         *)
(* overload, registerInput, pushExternalFunctionHandle) appends a record   *)
(* to a log: getPosition() is the same before and after the call.          *)
(***************************************************************************)
C9_PassiveRecordsNothing ==
  [][(~active) => TapePosition(Tape)' = TapePosition(Tape)]_vars

\* a position as the tuple of its components, outermost first
PosKey(p) ==
  <<p.chunk, p.data, p.inner.chunk, p.inner.data,
    p.inner.inner.chunk, p.inner.inner.data, p.inner.inner.inner>>

\* a <= b in lexicographic order
LexLE(a, b) ==
  \/ a = b
  \/ \E i \in 1..Len(a) : a[i] < b[i] /\ \A j \in 1..(i - 1) : a[j] = b[j]

(***************************************************************************)
(* C10: as long as no reset is applied, getPosition() is non-decreasing in *)
(* lexicographic order (outermost component first) across every recording  *)
(* operation, including those that start a new chunk in any of the three   *)
(* logs.                                                                   *)
(***************************************************************************)
C10_PositionMonotone ==
  [][LexLE(PosKey(TapePosition(Tape)), PosKey(TapePosition(Tape)'))]_vars

\* each of the three logs has started a second chunk
C10_Witness ==
  /\ Len(data.chunks) >= 2
  /\ Len(statements.chunks) >= 2
  /\ Len(externalFunctions.chunks) >= 2
  /\ last.op \in {"store", "registerInput", "pushExternalFunctionHandle"}

\* the position the last reset was called with
RewoundTo == IF last.op = "reset" THEN ZeroPosition ELSE saved.pos

(***************************************************************************)
(* C11: reset idempotence.  For every position p at or below the head the  *)
(* state (three logs, adjoints, index handler, delete functions invoked)   *)
(* after reset(p); reset(p) is the state after a single reset(p): a second *)
(* reset(p) changes nothing and deletes nothing.                           *)
(***************************************************************************)
C11_ResetIdempotent ==
  (Rewound /\ fault = "none") =>
    LET again == ResetOp(Tape, adjoints, RewoundTo)
    IN /\ ~again.outside
       /\ again.tape = Tape
       /\ again.adj = adjoints
       /\ again.popped = <<>>

\* a rewind to a saved position that dropped a statement and deleted the
\* later external function, keeping the earlier one and a seeded adjoint
C11_Witness ==
  /\ last.op = "resetTo"
  /\ fault = "none"
  /\ saved.nstmt >= 1
  /\ saved.next >= 1
  /\ deleted = <<0, 1>>
  /\ Len(adjoints) >= 2

(***************************************************************************)
(* C12: position round trip.  If p was returned by getPosition() and only  *)
(* recording operations followed, then after reset(p) getPosition()        *)
(* returns p again at all three log levels, and on the linear tape the     *)
(* statement counter is the one stored in p (0 after the full reset()).    *)
(***************************************************************************)
C12_PositionRoundTrip ==
  [][Rewound' =>
       /\ fault' = "none"
       /\ TapePosition(Tape)' = RewoundTo'
       /\ kind = "linear" => count' = RewoundTo'.inner.inner.inner]_vars

\* the adjoint vector of size n that holds 1 at index iy and 0 elsewhere
UnitSeed(n, iy) == [i \in 1..n |-> IF i = iy + 1 THEN 1 ELSE 0]

(***************************************************************************)
(* C13: linearity.  For a recorded program with registered input x and     *)
(* output y that has been evaluated once with seed 1, setGradient(y,       *)
(* alpha) followed by a second evaluate() on the same recording yields     *)
(* getGradient(x) = alpha * dy/dx.  Here ix is the index of a registered   *)
(* input, iy the index of the output, and dy/dx the adjoint of ix that the *)
(* chain rule gives for the unit seed at iy.                               *)
(***************************************************************************)
C13_Linearity ==
  (kind = "linear" /\ last.op = "evaluate" /\ fault = "none") =>
    \A ix \in 1..count, iy \in 1..count, alpha \in Values :
      LET first == RefLinear(UnitSeed(count + 1, iy), hist, Len(hist), 0)
          seeded == SetGradientOp(adjoints, iy, alpha)
          second == EvaluateOp(Tape, seeded, TapePosition(Tape), ZeroPosition,
                               OptZeroAdjoint, CHOOSE g \in Garbage : TRUE)
      IN (hist[ix].args = <<>> /\ adjoints = first)
           => second.adj[ix + 1] = alpha * first[ix + 1]

(***************************************************************************)
(* C14: the size of the adjoint vector never decreases across a tape       *)
(* operation other than the full reset(): gradient, setGradient, evaluate, *)
(* reset(pos), allocateAdjoints and (reuse tape) setAdjointsSize all leave *)
(* the size equal or larger.                                               *)
(***************************************************************************)
C14_AdjointSizeMonotone ==
  [][last'.op # "reset" => Len(adjoints') >= Len(adjoints)]_vars

\* the adjoint vector with n slots that keeps adj and is 0 beyond it
ZeroExtended(adj, n) == [i \in 1..n |-> IF i <= Len(adj) THEN adj[i] ELSE 0]

(***************************************************************************)
(* C15: if the size of the adjoint vector is <= the maximum issued index   *)
(* when evaluate(start, end) is called, evaluate first grows the vector to *)
(* maximum issued index + 1, with every new slot 0 and every existing      *)
(* adjoint kept, before any statement or external function is processed:   *)
(* the reverse pass runs on the vector grown this way.                     *)
(***************************************************************************)
C15_EvaluateGrowsFirst ==
  [][(last'.op = "evaluate" /\ Len(adjoints) <= MaxIndex(Tape)) =>
       /\ Len(adjoints') = MaxIndex(Tape) + 1
       /\ \E g \in Garbage :
            adjoints' = EvaluateExtFunc(Tape,
                                       WalkStart(ZeroExtended(adjoints, MaxIndex(Tape) + 1)),
                                       TapePosition(Tape), ZeroPosition, OptZeroAdjoint,
                                       g).adj]_vars

\* an evaluation on the reuse tape that found the adjoint vector one slot
\* short, grew it and propagated the seed of index 1 through x = f(x)
C15_Witness ==
  /\ last.op = "evaluate"
  /\ kind = "reuse"
  /\ last.size = 2
  /\ MaxIndex(Tape) = 2
  /\ Len(last.trace) = 2
  /\ hist[1].lhs = 1
  /\ hist[1].args # <<>>
  /\ adjoints[2] # 0

(***************************************************************************)
(* C16: adjoint access beyond the current size recovers by itself.         *)
(* getGradient(i) with i >= size returns 0 and changes no tape state (the  *)
(* vector is not grown); gradient(i) and setGradient(i, g) with i # 0 and  *)
(* i >= size grow the vector to size i + 1, fill the new slots with zeros  *)
(* and keep all existing adjoints.                                         *)
(***************************************************************************)
C16_AccessBeyondSize ==
  [][/\ (last'.op = "getGradient" /\ last'.index >= Len(adjoints)) =>
          /\ last'.value = 0
          /\ UNCHANGED <<kind, active, tapeVars, adjoints, reals, fault>>
     /\ (/\ last'.op \in {"gradient", "setGradient"}
         /\ last'.index # 0
         /\ last'.index >= Len(adjoints)) =>
          /\ fault' = "none"
          /\ Len(adjoints') = last'.index + 1
          /\ \A i \in 1..last'.index : adjoints'[i] = ZeroExtended(adjoints, last'.index)[i]
          /\ adjoints'[last'.index + 1] = last'.value
          /\ UNCHANGED <<kind, active, tapeVars, reals>>]_vars

\* gradient(3) = 1 grew a vector of two slots that held the seed 2
C16_Witness ==
  /\ last.op = "gradient"
  /\ last.index = 3
  /\ last.size = 2
  /\ adjoints[2] = 2
  /\ adjoints[4] = 1

(***************************************************************************)
(* C17: index 0 is never written by client code.  gradient(0) fails an     *)
(* assertion without changing the adjoint vector, and setGradient(0, g) is *)
(* ignored and leaves the whole tape state unchanged, for every g.         *)
(***************************************************************************)
C17_IndexZeroNotWritten ==
  [][/\ (last'.op = "gradient" /\ last'.index = 0) =>
          (fault' = "assert" /\ UNCHANGED <<kind, active, tapeVars, adjoints, reals>>)
     /\ (last'.op = "setGradient" /\ last'.index = 0) =>
          UNCHANGED <<kind, active, tapeVars, adjoints, reals, fault>>]_vars

\* gradient(0) was called on a tape whose adjoint vector holds a seed
C17_Witness ==
  /\ last.op = "gradient"
  /\ last.index = 0
  /\ fault = "assert"
  /\ Len(adjoints) >= 2
  /\ adjoints[2] # 0

(***************************************************************************)
(* C18: calling evaluate(start, end) with start < end is a contract        *)
(* violation that is reported by an assert; the call does not return       *)
(* normally.                                                               *)
(***************************************************************************)
C18_ReversedRangeAsserts ==
  [][last'.op = "evaluateReversed" => fault' = "assert"]_vars

\* the variables of the program that hold an index
LiveReals == {r \in Reals : reals[r].gradientData # 0}

C20_IndexZeroSentinel ==
  /\ \A c \in 1..Len(data.chunks) :
       \A i \in 1..Len(data.chunks[c]) : data.chunks[c][i][2] # 0
  /\ kind = "reuse" =>
       \A c \in 1..Len(statements.chunks) :
         \A i \in 1..Len(statements.chunks[c]) : statements.chunks[c][i][2] # 0
  /\ adjoints # <<>> => adjoints[1] = 0

\* the records of the jacobian log and of the statement log, oldest first
JacobiRecords == Flatten(data.chunks)
StmtRecords == Flatten(statements.chunks)

\* the number of jacobians this step pushed
JacobiansPushed == Len(JacobiRecords') - Len(JacobiRecords)

\* this step is a store of a general expression on an active tape
ActiveStore == last'.op = "store" /\ active

(***************************************************************************)
(* C21: an active general-expression store whose right-hand side pushes no *)
(* jacobian appends no statement record and makes the lhs inactive: on the *)
(* linear tape lhsIndex becomes 0 and the counter is unchanged; on the     *)
(* reuse tape lhsIndex is released to the index handler and becomes 0.     *)
(***************************************************************************)
C21_StoreNoJacobian ==
  [][(ActiveStore /\ JacobiansPushed = 0) =>
       /\ StmtRecords' = StmtRecords
       /\ reals'[last'.lhs].gradientData = 0
       /\ kind = "linear" => count' = count
       /\ kind = "reuse" =>
            /\ indexHandler'.maxIssued = indexHandler.maxIssued
            /\ indexHandler'.freeList =
                 IF last'.index # 0 THEN Append(indexHandler.freeList, last'.index)
                 ELSE indexHandler.freeList]_vars

\* on an active reuse tape that holds a statement, a variable with an index
\* was assigned an expression of inactive variables and its index was freed
C21_Witness ==
  /\ kind = "reuse"
  /\ last.op = "store"
  /\ active
  /\ hist # <<>>
  /\ last.index # 0
  /\ reals[last.lhs].gradientData = 0
  /\ indexHandler.freeList # <<>>
  /\ indexHandler.freeList[Len(indexHandler.freeList)] = last.index

CurChunk(cv) == cv.chunks[Len(cv.chunks)]
StartedChunk(cv, cv2) == Len(cv2.chunks) = Len(cv.chunks) + 1

\* this step left the closed chunks of the vector alone, started at most one
\* chunk and put n records at the end of the current one, within its size
AppendedInCurrent(cv, cv2, n) ==
  /\ Len(cv2.chunks) = Len(cv.chunks) \/ StartedChunk(cv, cv2)
  /\ \A c \in 1..Len(cv.chunks) : c < Len(cv2.chunks) => cv2.chunks[c] = cv.chunks[c]
  /\ Len(CurChunk(cv2)) <= cv2.chunkSize
  /\ Len(CurChunk(cv2)) >= n
  /\ SubSeq(CurChunk(cv2), 1, Len(CurChunk(cv2)) - n)
       = (IF StartedChunk(cv, cv2) THEN <<>> ELSE CurChunk(cv))

(***************************************************************************)
(* C23: reservation safety.  Within one store call the jacobian log is     *)
(* reserved for maxActiveVariables entries and then the statement log for  *)
(* one entry, both before the right-hand side is evaluated; no chunk of    *)
(* either log is sealed between the reservation and the statement push,    *)
(* the jacobian offset before and after the right-hand side lie in the     *)
(* same jacobian chunk, and all jacobians of one statement are contiguous  *)
(* in one chunk.  A statement chunk started by the call therefore begins   *)
(* at the jacobian position the statement's first jacobian is written to.  *)
(***************************************************************************)
C23_ReservationSafety ==
  [][(last'.op \in {"store", "storeCopy"} /\ active) =>
       /\ AppendedInCurrent(data, data', JacobiansPushed)
       /\ AppendedInCurrent(statements, statements', Len(StmtRecords') - Len(StmtRecords))
       /\ StartedChunk(statements, statements') =>
            statements'.positions[Len(statements'.positions)]
              = [chunk |-> Len(data'.chunks) - 1,
                 data |-> Len(CurChunk(data')) - JacobiansPushed,
                 inner |-> CounterPosition(kind, count)]]_vars

\* a store of two jacobians did not fit into the first jacobian chunk, which
\* was closed with one record, and started a second statement chunk as well
C23_Witness ==
  /\ last.op = "store"
  /\ active
  /\ Len(data.chunks) = 2
  /\ Len(data.chunks[1]) = 1
  /\ Len(data.chunks[2]) = 2
  /\ Len(statements.chunks) = 2
  /\ statements.positions[2].chunk = 1
  /\ statements.positions[2].data = 0

C25_PassiveLiteralZeroesIndex ==
  [][last'.op = "storePassive" =>
       /\ reals'[last'.lhs].gradientData = 0
       /\ UNCHANGED <<count, data, statements, externalFunctions>>
       /\ kind = "reuse" =>
            /\ indexHandler'.maxIssued = indexHandler.maxIssued
            /\ indexHandler'.freeList =
                 IF last'.index # 0 THEN Append(indexHandler.freeList, last'.index)
                 ELSE indexHandler.freeList]_vars

RECURSIVE PartialSum(_, _, _)
PartialSum(args, i, k) ==
  IF k > Len(args) THEN 0
  ELSE (IF args[k][2] = i THEN args[k][1] ELSE 0) + PartialSum(args, i, k + 1)

(***************************************************************************)
(* C27: in the reuse tape's reverse pass adj[S.lhsIndex] is set to 0       *)
(* immediately after it is read and before any of S's jacobian updates are *)
(* applied.  For an evaluation of the single statement S with a the value  *)
(* read and the jacobians read from S's own chunk, the adjoint of          *)
(* S.lhsIndex afterwards is a * (sum of the partials of S for that index)  *)
(* -- for x = f(x) not a + a * partial -- and every other adjoint has      *)
(* grown by a times the partials for its index.                            *)
(***************************************************************************)
C27_ReuseZeroesLhsFirst ==
  [][(kind = "reuse" /\ EvalStep /\ last'.sN = last'.eN + 1 /\ fault' = "none") =>
       LET S == hist[last'.sN]
           a == Grown(adjoints)[S.lhs + 1]
       IN /\ Len(adjoints') = Len(Grown(adjoints))
          /\ \A i \in 0..(Len(adjoints') - 1) :
               adjoints'[i + 1] = (IF i = S.lhs THEN 0 ELSE Grown(adjoints)[i + 1])
                                    + a * PartialSum(S.args, i, 1)]_vars

\* x = f(x, x) with the partials 1 and 2 was evaluated for the seed 1
C27_Witness ==
  /\ kind = "reuse"
  /\ last.op = "evaluate"
  /\ fault = "none"
  /\ Len(hist) = 1
  /\ hist[1] = [lhs |-> 1, args |-> << <<1, 1>>, <<2, 1>> >>]
  /\ adjoints = <<0, 3>>

\* whether a statement in (e, s] has an argument with index i
UsedAbove(i, s, e) ==
  \E k \in (e + 1)..s : \E j \in 1..Len(hist[k].args) : hist[k].args[j][2] = i

(***************************************************************************)
(* C28: on the linear tape, between operations, the counter equals the     *)
(* number of records in the statement log, so the statement at ordinal k   *)
(* has implicit lhs index k.  Every store that pushes a statement and      *)
(* every registerInput (which appends a statement with argCount 0 and sets *)
(* the variable's index to the incremented counter) raise both by one,     *)
(* reset(pos) rewinds both together, and the reverse pass treats an        *)
(* argCount-0 statement as a no-op that leaves the input's adjoint in      *)
(* place.                                                                  *)
(***************************************************************************)
C28_CounterIsStatementCount ==
  [][kind = "linear" =>
       /\ count' = Len(StmtRecords')
       /\ last'.op = "registerInput" =>
            /\ StmtRecords' = Append(StmtRecords, <<0>>)
            /\ count' = count + 1
            /\ reals'[last'.lhs].gradientData = count'
       /\ (last'.op = "store" /\ StmtRecords' # StmtRecords) =>
            /\ Len(StmtRecords') = Len(StmtRecords) + 1
            /\ count' = count + 1
            /\ reals'[last'.lhs].gradientData = count'
       /\ (Rewound' /\ fault' = "none") =>
            /\ count' = RewoundTo'.inner.inner.inner
            /\ StmtRecords' = SubSeq(StmtRecords, 1, count')
       /\ last'.op = "evaluate" =>
            /\ adjoints' = RefLinear(Grown(adjoints), hist, last'.sN, last'.eN)
            /\ \A k \in 1..Len(hist) :
                 (StmtRecords[k] = <<0>> /\ ~UsedAbove(k, last'.sN, last'.eN)) =>
                   adjoints'[k + 1] = Grown(adjoints)[k + 1]]_vars

\* registerInput(x); y = f(x); a seed for x and for y; evaluate(): the input
\* is statement 1 with no arguments, and its adjoint is still there
C28_Witness ==
  /\ kind = "linear"
  /\ last.op = "evaluate"
  /\ fault = "none"
  /\ count = 2
  /\ StmtRecords = << <<0>>, <<1>> >>
  /\ reals["x"].gradientData = 1
  /\ reals["y"].gradientData = 2
  /\ adjoints[2] = 3
  /\ adjoints[3] = 1

(***************************************************************************)
(* C29: zero-adjoint short-circuit.  With OptZeroAdjoint on, while         *)
(* processing a statement whose lhs adjoint is exactly 0 the reverse pass  *)
(* performs no write to any adjoint slot (the adjoint write counter does   *)
(* not change), on the linear and on the reuse tape.                       *)
(***************************************************************************)
C29_ZeroAdjointNoWrite ==
  (OptZeroAdjoint /\ Evaluated) =>
    \A k \in 1..Len(last.trace) :
      (IsStmt(last.trace[k]) /\ last.trace[k][4] = 0) => last.trace[k][5] = 0

(***************************************************************************)
(* C29 as the code has it: with OptZeroAdjoint on, while processing a      *)
(* statement whose lhs adjoint is exactly 0 the reverse pass applies no    *)
(* jacobian update and leaves the value of every adjoint slot unchanged;   *)
(* on the linear tape it performs no write to an adjoint slot at all, on   *)
(* the reuse tape its only write is adjoints[lhsIndex] = 0.0, which stores *)
(* 0 over the 0 just read.                                                 *)
(***************************************************************************)
C29_ZeroAdjointNoUpdate ==
  (OptZeroAdjoint /\ Evaluated) =>
    \A k \in 1..Len(last.trace) :
      (IsStmt(last.trace[k]) /\ last.trace[k][4] = 0) =>
        /\ last.trace[k][6]
        /\ last.trace[k][5] = (IF kind = "reuse" THEN 1 ELSE 0)

\* an evaluation of the reuse tape that skipped a statement with an argument
\* (lhs adjoint 0) and propagated the seed of another one
C29_Witness ==
  /\ kind = "reuse"
  /\ last.op = "evaluate"
  /\ fault = "none"
  /\ \E k \in 1..Len(last.trace) :
       /\ last.trace[k][4] = 0
       /\ hist[StmtNo(last.trace[k][2], last.trace[k][3])].args # <<>>
  /\ \E k \in 1..Len(last.trace) : last.trace[k][4] # 0 /\ last.trace[k][5] = 2

\* evaluate() of the current tape with the zero-adjoint test on or off
EvaluateWith(zopt, g) ==
  EvaluateOp(Tape, adjoints, TapePosition(Tape), ZeroPosition, zopt, g)

\* the statements a walk processed, with the lhs adjoint read for each
StmtsRead(trace) ==
  LET evs == SelectSeq(trace, IsStmt)
  IN [k \in 1..Len(evs) |-> SubSeq(evs[k], 1, 4)]

\* both walks end with the same adjoints and the same cursors, having read
\* the same lhs adjoints for the same statements
SameWalk(on, off) ==
  /\ on.adj = off.adj
  /\ on.dataPos = off.dataPos
  /\ on.stmtPos = off.stmtPos
  /\ StmtsRead(on.trace) = StmtsRead(off.trace)

\* every jacobian on the tape is finite
FiniteJacobians == \A k \in 1..Len(JacobiRecords) : IsFinite(JacobiRecords[k][1])

(***************************************************************************)
(* C30: for every recorded tape and every seeding, the adjoint vector      *)
(* after evaluate with OptZeroAdjoint enabled equals the adjoint vector    *)
(* after evaluate with it disabled: a skipped statement still moves the    *)
(* jacobian cursor back by exactly its argCount, so every later-processed  *)
(* statement reads the same jacobian entries in both runs.                 *)
(***************************************************************************)
C30_ZeroAdjointEquivalent ==
  [][last'.op = "evaluate" =>
       /\ \E g \in Garbage : adjoints' = EvaluateWith(OptZeroAdjoint, g).adj
       /\ \A g \in Garbage : SameWalk(EvaluateWith(TRUE, g), EvaluateWith(FALSE, g))]_vars

(***************************************************************************)
(* C30 as the code has it: for every recorded tape all of whose jacobians  *)
(* are finite, and every seeding, the adjoint vector after evaluate with   *)
(* OptZeroAdjoint enabled equals the one after evaluate with it disabled,  *)
(* and both runs move the cursors alike.  (A skipped statement with a      *)
(* non-finite jacobian leaves its argument's adjoint alone, while the run  *)
(* without the test adds 0 * Inf = NaN to it.)                             *)
(***************************************************************************)
C30_ZeroAdjointEquivalentFinite ==
  [][(last'.op = "evaluate" /\ FiniteJacobians) =>
       /\ \E g \in Garbage : adjoints' = EvaluateWith(OptZeroAdjoint, g).adj
       /\ \A g \in Garbage : SameWalk(EvaluateWith(TRUE, g), EvaluateWith(FALSE, g))]_vars

\* on a linear tape of finite jacobians the evaluation skipped the last
\* statement, which has two arguments, and propagated the seed of an earlier
\* statement through that statement's jacobian
C30_Witness ==
  /\ kind = "linear"
  /\ last.op = "evaluate"
  /\ fault = "none"
  /\ FiniteJacobians
  /\ Len(hist) = 3
  /\ Len(hist[3].args) = 2
  /\ last.trace[1][4] = 0
  /\ last.trace[1][5] = 0
  /\ last.trace[2][4] # 0
  /\ last.trace[2][5] = 1

\* the records of the external function log, oldest first
ExtRecords == Flatten(externalFunctions.chunks)

\* the number of records of the vector cv below chunk c, and below the
\* position p
RECURSIVE RecordsBelowChunk(_, _)
RecordsBelowChunk(cv, c) ==
  IF c = 0 THEN 0 ELSE RecordsBelowChunk(cv, c - 1) + Len(cv.chunks[c])
RecordsBelow(cv, p) == RecordsBelowChunk(cv, p.chunk) + p.data

(***************************************************************************)
(* C31: every record of the external function log carries as boundary the  *)
(* position of the statement log (with its nested jacobian log position)   *)
(* that was current when the record was appended.  A push appends          *)
(* <<function, statements.getPosition()>>, the position being the same     *)
(* before the slot is reserved and after the record is written; no other   *)
(* operation (store, chunk start, evaluate) changes a record of the log,   *)
(* and the boundary of every record has as many statement records below it *)
(* as were recorded before the push.                                       *)
(***************************************************************************)
C31_ExtBoundaryAtAppend ==
  [][/\ last'.op = "pushExternalFunctionHandle" =>
          /\ ExtRecords' = Append(ExtRecords, <<extCount + 1, TapeStmtPosition(Tape)>>)
          /\ TapeStmtPosition(Tape)' = TapeStmtPosition(Tape)
     /\ last'.op # "pushExternalFunctionHandle" => ExtRecords' = ExtRecords
     /\ Len(ExtRecords') = Len(extHist')
     /\ \A i \in 1..Len(ExtRecords') :
          /\ ExtRecords'[i][1] = extHist'[i].func
          /\ RecordsBelow(statements', ExtRecords'[i][2]) = extHist'[i].nstmt]_vars

\* an evaluation of a tape whose first external function was pushed inside a
\* statement chunk that has been closed since, and whose second one started
\* a chunk of the external function log
C31_Witness ==
  /\ last.op \in {"evaluate", "evaluateRange"}
  /\ Len(ExtRecords) = 2
  /\ Len(externalFunctions.chunks) >= 2
  /\ ExtRecords[1][2].data > 0
  /\ Len(statements.chunks) > ExtRecords[1][2].chunk + 1
  /\ Len(data.chunks) > ExtRecords[1][2].inner.chunk + 1

\* the sum of argCount over the first n statement records
RECURSIVE ArgSum(_, _)
ArgSum(recs, n) == IF n = 0 THEN 0 ELSE ArgSum(recs, n - 1) + recs[n][1]

\* the statement log position p splits the two logs between statements: the
\* jacobian records below p.inner are those of the statement records below p
Aligned(p) ==
  RecordsBelow(data, p.inner) = ArgSum(StmtRecords, RecordsBelow(statements, p))

(***************************************************************************)
(* C32: cross-log alignment.  For every statement chunk c > 0 (the         *)
(* jacobian log position stored when the chunk was started) and for every  *)
(* boundary of an external function record, the number of jacobian records *)
(* below the stored jacobian log position equals the sum of argCount over  *)
(* the statement records below that point of the statement log.            *)
(***************************************************************************)
C32_CrossLogAlignment ==
  /\ \A c \in 1..(Len(statements.chunks) - 1) :
       Aligned([chunk |-> c, data |-> 0, inner |-> CVGetInnerPosition(statements, c)])
  /\ \A i \in 1..Len(ExtRecords) : Aligned(ExtRecords[i][2])

\* the last store started a jacobian chunk and a statement chunk at once and
\* pushed two jacobians, with jacobians recorded before it, and an external
\* function was pushed after a statement with arguments
C32_Witness ==
  /\ last.op = "store"
  /\ Len(statements.chunks) >= 2
  /\ Len(data.chunks) >= 2
  /\ CVGetInnerPosition(statements, Len(statements.chunks) - 1)
       = [chunk |-> Len(data.chunks) - 1, data |-> 0, inner |-> CounterPosition(kind, count - 1)]
  /\ Len(CurChunk(data)) = 2
  /\ Len(CurChunk(statements)) = 1
  /\ Len(data.chunks[Len(data.chunks) - 1]) > 0
  /\ \E i \in 1..Len(ExtRecords) : RecordsBelow(data, ExtRecords[i][2].inner) > 0

\* the public operations that read or write the adjoint array
AdjointOps ==
  {"clearAdjoints", "clearAdjointsRange", "reset", "resetTo", "evaluate",
   "evaluateRange", "gradient", "setGradient", "getGradient"}

(***************************************************************************)
(* C33: every read or write of the adjoint array made by a public          *)
(* operation (clearAdjoints(), clearAdjoints(start, end), reset(pos),      *)
(* reset(), evaluate, gradient, getGradient) uses an index inside the      *)
(* current adjoint vector, for every sequence of operations on a freshly   *)
(* constructed tape whose adjoint vector is unallocated: no such operation *)
(* ends in an access outside the vector.                                   *)
(***************************************************************************)
C33_AdjointAccessInBounds ==
  last.op \in AdjointOps => fault \notin {"segv", "oob"}

\* this step is a reset(pos) of the linear tape that returned, and the
\* counter stored in its position
ResetStepLinear ==
  kind = "linear" /\ last'.op \in {"reset", "resetTo"} /\ fault' = "none"
ResetCounter == IF last'.op = "resetTo" THEN saved.pos.inner.inner.inner ELSE 0

(***************************************************************************)
(* C34: on the linear tape, reset(pos) sets to 0 exactly the adjoints of   *)
(* the indices issued after pos (counter(pos) < i <= counter) and leaves   *)
(* adj[i] unchanged for every index i <= counter(pos), the indices of the  *)
(* statements that are still on the tape after the reset.                  *)
(***************************************************************************)
C34_ResetZeroesIssuedAfter ==
  [][ResetStepLinear =>
       /\ Len(adjoints') = Len(adjoints)
       /\ \A i \in 0..(Len(adjoints) - 1) :
            adjoints'[i + 1] = IF ResetCounter < i /\ i <= count THEN 0
                               ELSE adjoints[i + 1]]_vars

\* this step is a clearAdjoints(start, end) of the linear tape that returned
ClearStepLinear ==
  kind = "linear" /\ last'.op = "clearAdjointsRange" /\ fault' = "none"

Min(a, b) == IF a <= b THEN a ELSE b

(***************************************************************************)
(* C35: on the linear tape, clearAdjoints(start, end) uses the innermost   *)
(* sub-position (the statement counter) of its two arguments as the range  *)
(* of adjoint indices: it sets adj[i] to 0 for every index i between the   *)
(* counter of one position and the counter of the other, inclusive,        *)
(* whichever of the two positions is the later one, and leaves every       *)
(* adjoint outside that range unchanged.                                   *)
(***************************************************************************)
C35_ClearBetweenCounters ==
  [][ClearStepLinear =>
       /\ Len(adjoints') = Len(adjoints)
       /\ \A i \in 0..(Len(adjoints) - 1) :
            adjoints'[i + 1] =
              IF Min(last'.index, last'.value) <= i /\ i <= Max(last'.index, last'.value)
              THEN 0
              ELSE adjoints[i + 1]]_vars

(***************************************************************************)
(* C36: evaluate(start, end) changes only the adjoint values and the       *)
(* adjoint size: the contents of the jacobian, statement and external      *)
(* function logs, getPosition(), the active flag, the linear counter and   *)
(* the state of the reuse index handler are the same before and after the  *)
(* call, and no delete function is invoked.  (Stated for the calls that    *)
(* stay inside their arrays.)                                              *)
(***************************************************************************)
C36_EvaluateFrame ==
  [][(last'.op \in {"evaluate", "evaluateRange", "evaluateReversed"} /\ fault' = "none") =>
       /\ data' = data
       /\ statements' = statements
       /\ externalFunctions' = externalFunctions
       /\ TapePosition(Tape)' = TapePosition(Tape)
       /\ active' = active
       /\ count' = count
       /\ indexHandler' = indexHandler
       /\ deleted' = deleted
       /\ Len(adjoints') >= Len(adjoints)]_vars

\* an evaluation between two positions that called an external function,
\* evaluated statements from more than one chunk and grew the adjoint vector
C36_Witness ==
  /\ last.op = "evaluateRange"
  /\ fault = "none"
  /\ ExtEvents(last.trace) # <<>>
  /\ Len(StmtEvents(last.trace)) >= 2
  /\ Len(statements.chunks) >= 2
  /\ Len(adjoints) > last.size
  /\ \A f \in 1..MaxExt : deleted[f] = 0

(***************************************************************************)
(* C37: the argCount stored in a statement record equals the number of     *)
(* jacobian records its store appended, for every number of arguments a    *)
(* right-hand side may have (the narrowing of the count to the 8 bit       *)
(* StatementInt never wraps), so in every state between operations the sum *)
(* of argCount over all statement records equals the number of jacobian    *)
(* records of the jacobian log.                                            *)
(***************************************************************************)
C37_ArgCountIsJacobianCount ==
  /\ Len(StmtRecords) = Len(hist)
  /\ \A k \in 1..Len(StmtRecords) : StmtRecords[k][1] = Len(hist[k].args)
  /\ ArgSum(StmtRecords, Len(StmtRecords)) = Len(JacobiRecords)

=============================================================================
